---------------------------- MODULE Spec2Model ----------------------------
(***************************************************************************)
(* Verification model of modcncy: the central counter barriers             *)
(* (CentralSenseCounterBarrier, CentralStepCounterBarrier) and the         *)
(* BlockingTaskQueue, each driven by the usages found in the tests.        *)
(***************************************************************************)
EXTENDS Integers, Sequences, FiniteSets, TLC

(* ------------------------------------------------------------------ *)
(* Bounds of the model.                                                *)
(* ------------------------------------------------------------------ *)
\* Largest number of threads a barrier run launches.
MaxThreads == 4
\* Largest number of threads of the uniform usage.
MaxUniformThreads == 3
\* Number of successive phases of the uniform usage.
MaxPhases == 3
\* Number of threads using the task queue.
MaxQueueThreads == 3
\* Push and Pop calls made on the queue in one run, over all threads.
MaxQueueOps == 6
\* Largest type tag handed to a factory method (the tests cast 42).
MaxTypeTag == 42
\* Largest element of a range to sort; the smallest is 0.
MaxValue == 1
\* Largest number of elements of a range to sort.
MaxDataSize == 4
\* Largest number of threads of a sort.
MaxSortThreads == 2
\* Largest log2(num_segments) for which the number of (k, j) is computed.
MaxLog2Segments == 6
\* Largest log2(num_segments) for which the pairs of every step are enumerated.
MaxLog2Pairs == 4
\* Largest num_threads for which the order of the stolen-from queues is computed.
MaxStealThreads == 5
\* sizeof(int), in bytes.
sizeof_int == 4

(* ------------------------------------------------------------------ *)
(* `unsigned`: a 32-bit word, kept as two 16-bit limbs so that every   *)
(* value stays within the model checker's integers.                    *)
(* ------------------------------------------------------------------ *)
\* Half the width of std::atomic<unsigned>.
LimbBits == 16
LimbMax == (2 ^ LimbBits) - 1

UZero == [hi |-> 0, lo |-> 0]
UMax == [hi |-> LimbMax, lo |-> LimbMax]
UPred(u) == IF u.lo = 0 THEN [hi |-> (u.hi + LimbMax) % (LimbMax + 1), lo |-> LimbMax]
            ELSE [hi |-> u.hi, lo |-> u.lo - 1]

\* A mutation of UNot: the flag is written back unchanged.
UNotKeeps(u) == u
\* ~x on unsigned.
UNot(u) == [hi |-> LimbMax - u.hi, lo |-> LimbMax - u.lo]

\* A mutation of UAdd1: the increment saturates instead of wrapping.
UAdd1Saturating(u) ==
    IF u = UMax THEN UMax
    ELSE IF u.lo = LimbMax THEN [hi |-> u.hi + 1, lo |-> 0]
    ELSE [hi |-> u.hi, lo |-> u.lo + 1]
\* x + 1 on unsigned: wraps to 0 past the maximum.
UAdd1(u) ==
    IF u.lo = LimbMax THEN [hi |-> (u.hi + 1) % (LimbMax + 1), lo |-> 0]
    ELSE [hi |-> u.hi, lo |-> u.lo + 1]

(* ------------------------------------------------------------------ *)
(* State.                                                              *)
(* ------------------------------------------------------------------ *)
VARIABLES
    \* Barrier under test and how the threads use it.
    variant,            \* "sense" | "step": the class Barrier::Create made
    usage,              \* "uniform" | "tree" | "short": the calling pattern
    nthreads,           \* number of threads launched
    declared,           \* num_threads passed to the first Wait
    \* Fields of the barrier.
    spinning_threads_,  \* std::atomic<int>
    sense_,             \* std::atomic<unsigned> of the sense barrier
    step_,              \* std::atomic<unsigned> of the step barrier
    \* Each thread inside or outside Wait.
    pc,                 \* position of each thread
    my_sense,           \* local of CentralSenseCounterBarrier::Wait
    current_step,       \* local of CentralStepCounterBarrier::Wait
    completed,          \* number of Waits each thread has returned from
    releases,           \* number of times a last arrival changed the epoch
    \* Happens-before bookkeeping of the C++ memory model.
    view,               \* view[t][u]: stores of u that happen before t's next step
    relSpin,            \* what an acquire of spinning_threads_ synchronizes with
    relEpoch,           \* what an acquire of sense_/step_ synchronizes with
    observed,           \* every read after a Wait saw the stores made before it
    \* BlockingTaskQueue and its users.
    queue_,             \* std::deque of tasks
    mutex_,             \* holder of the mutex, or NoThread
    qpc,                \* position of each queue thread
    task,               \* local `task` of Pop / argument of Push
    pushes,             \* number of Push calls each thread has made
    pops,               \* number of Pop calls each thread has made
    popped,             \* tasks in the order Pop removed them
    \* The test ConcurrentTaskQueueExecution.
    test_threads,       \* num_threads of the test, 0 outside it
    counter,            \* int counter, guarded by the test's mutex
    ran,                \* whether each thread has called the task it popped
    executed,           \* tasks in the order they were called
    \* Factory methods.
    barrier_type,       \* argument of the last Barrier::Create
    new_barrier,        \* what it returned
    queue_type,         \* argument of the last ConcurrentTaskQueue::Create
    new_queue,          \* what it returned
    \* One call of a bitonicsort.
    mode,               \* which of segmented, blocking, lockfree, stealing, waitfree
    num_threads,        \* argument num_threads
    segment_size,       \* argument segment_size
    sizeof_T,           \* sizeof of the value_type of the iterators, in bytes
    input,              \* the range [begin, end) when the sort was called
    data,               \* the range [begin, end) now
    task_runs,          \* per segment: std::sort and merge calls that have returned
    spc,                \* position of each thread in thread_work
    loop_kj,            \* k and j of each thread's loops over the network
    loop_i,             \* i of each thread's loop over its segments
    my_stage,           \* local my_stage of the lockfree sort
    segment_stage_count, \* std::atomic<size_t> per segment
    thread_stage_count, \* std::atomic<size_t> per thread (waitfree)
    queue,              \* the tasks in each thread's ConcurrentTaskQueue
    running,            \* the task each thread is executing, with its position
    queue_index,        \* argument of execute_tasks while it runs, or NoIndex
    steal_i,            \* i of the loop of steal_tasks while it runs, or NoIndex
    stealer_stage,      \* local stealer_stage of steal_tasks
    barrier,            \* the fields of the sort's sense barrier
    wpc,                \* position of each thread in barrier->Wait
    wait_sense,         \* local my_sense of that Wait
    wait_calls,         \* number of Waits the thread has called
    \* One call of a merge of merge.h.
    m_call,             \* the function called, "none" before the call
    m_input,            \* segment1 and segment2 when it was called
    m_buffer,           \* the buffer after the merging loops
    m_sources,          \* which segment each element of the buffer came from
    m_output            \* segment1 and segment2 after Scatter

barrierVars == <<variant, usage, nthreads, declared, spinning_threads_, sense_,
                 step_, pc, my_sense, current_step, completed, releases, view,
                 relSpin, relEpoch, observed>>
queueVars == <<queue_, mutex_, qpc, task, pushes, pops, popped>>
testVars == <<test_threads, counter, ran, executed>>
factoryVars == <<barrier_type, new_barrier, queue_type, new_queue>>
sortParams == <<mode, num_threads, segment_size, sizeof_T, input>>
sortVars == <<sortParams, data, task_runs, spc, loop_kj, loop_i, my_stage,
              segment_stage_count, thread_stage_count, queue, running,
              queue_index, steal_i, stealer_stage, barrier, wpc, wait_sense, wait_calls>>
mergeVars == <<m_call, m_input, m_buffer, m_sources, m_output>>
\* Everything but the sort.
restVars == <<barrierVars, queueVars, testVars, factoryVars, mergeVars>>
vars == <<barrierVars, queueVars, testVars, factoryVars, sortVars, mergeVars>>

Threads == 0 .. (MaxThreads - 1)
Launched == 0 .. (nthreads - 1)

Max2(a, b) == IF a >= b THEN a ELSE b
Pow2(n) == 2 ^ n
IsPow2(n) == \E e \in 0 .. n : Pow2(e) = n

(* ------------------------------------------------------------------ *)
(* Happens-before views.                                               *)
(* ------------------------------------------------------------------ *)
NoStores == [u \in Threads |-> 0]
Join(a, b) == [u \in Threads |-> Max2(a[u], b[u])]

\* A mutation of AcquireLoad: the load is relaxed and synchronizes with nothing.
RelaxedLoad(v, rel) == v
\* load(std::memory_order_acquire) reading a value whose release view is rel.
AcquireLoad(v, rel) == Join(v, rel)
\* store(std::memory_order_release): the stored value carries the storer's view.
ReleaseStore(v) == v
\* store(std::memory_order_relaxed): the stored value carries nothing.
RelaxedStore(v) == NoStores
\* fetch_add(std::memory_order_release / acq_rel): continues the release sequence.
ReleaseRMW(v, rel) == Join(rel, v)

(* ------------------------------------------------------------------ *)
(* The callers: which Wait a thread makes next.                        *)
(* ------------------------------------------------------------------ *)
\* Number of Waits thread t has invoked.
Called(t) == completed[t] + (IF pc[t] \in {"arrive", "spin", "reset", "release"} THEN 1 ELSE 0)

\* The threads that take part in the k-th phase (k = 1, 2, ...).
Participants(k) ==
    IF usage = "tree" THEN {u \in Launched : u % Pow2(k - 1) = 0} ELSE Launched

\* num_threads passed by a thread to its (k+1)-th Wait.
NumThreadsArg(k) ==
    IF usage = "tree" THEN nthreads \div Pow2(k) ELSE declared

\* Whether thread t, back from its k-th Wait, calls Wait again.
CallsAgain(t, k) ==
    CASE usage = "uniform" -> k < MaxPhases
      [] usage = "tree" -> Pow2(k) <= nthreads /\ t % Pow2(k) = 0
      [] OTHER -> FALSE

(* ------------------------------------------------------------------ *)
(* Wait, one action per atomic operation.                              *)
(* ------------------------------------------------------------------ *)
\* A mutation of ArrivesEarly: the comparison is off by one.
ArrivesEarlyOffByOne(old, expected) == old < expected - 2
\* A mutation of ArrivesEarly: the comparison is <= instead of <.
ArrivesEarlyInclusive(old, expected) == old <= expected - 1
\* fetch_add(1) < num_threads - 1: this arrival is not the last one.
ArrivesEarly(old, expected) == old < expected - 1

\* The caller's store before the barrier, the call, and the first load of Wait.
SenseLoad(t) ==
    /\ variant = "sense" /\ pc[t] = "call"
    /\ view' = [view EXCEPT ![t][t] = completed[t] + 1]
    /\ my_sense' = [my_sense EXCEPT ![t] = sense_]
    /\ pc' = [pc EXCEPT ![t] = "arrive"]
    /\ UNCHANGED <<variant, usage, nthreads, declared, spinning_threads_, sense_,
                   step_, current_step, completed, releases, relSpin, relEpoch,
                   observed, queueVars, testVars, factoryVars, sortVars, mergeVars>>

StepLoad(t) ==
    /\ variant = "step" /\ pc[t] = "call"
    /\ view' = [view EXCEPT ![t][t] = completed[t] + 1]
    /\ current_step' = [current_step EXCEPT ![t] = step_]
    /\ pc' = [pc EXCEPT ![t] = "arrive"]
    /\ UNCHANGED <<variant, usage, nthreads, declared, spinning_threads_, sense_,
                   step_, my_sense, completed, releases, relSpin, relEpoch,
                   observed, queueVars, testVars, factoryVars, sortVars, mergeVars>>

\* spinning_threads_.fetch_add(1, acq_rel) and the branch on its result.
Arrive(t) ==
    /\ pc[t] = "arrive"
    /\ spinning_threads_' = spinning_threads_ + 1
    /\ view' = [view EXCEPT ![t] = AcquireLoad(view[t], relSpin)]
    /\ relSpin' = ReleaseRMW(AcquireLoad(view[t], relSpin), relSpin)
    /\ pc' = [pc EXCEPT ![t] =
                IF ArrivesEarly(spinning_threads_, NumThreadsArg(completed[t]))
                THEN "spin" ELSE "reset"]
    /\ UNCHANGED <<variant, usage, nthreads, declared, sense_, step_, my_sense,
                   current_step, completed, releases, relEpoch, observed, queueVars, testVars, factoryVars, sortVars, mergeVars>>

\* One evaluation of the spin condition; WaitingWithPolicy changes no state.
SenseSpin(t) ==
    /\ variant = "sense" /\ pc[t] = "spin"
    /\ view' = [view EXCEPT ![t] = AcquireLoad(view[t], relEpoch)]
    /\ IF sense_ = my_sense[t]
       THEN UNCHANGED <<pc, completed>>
       ELSE /\ pc' = [pc EXCEPT ![t] = "returned"]
            /\ completed' = [completed EXCEPT ![t] = @ + 1]
    /\ UNCHANGED <<variant, usage, nthreads, declared, spinning_threads_, sense_,
                   step_, my_sense, current_step, releases, relSpin, relEpoch,
                   observed, queueVars, testVars, factoryVars, sortVars, mergeVars>>

StepSpin(t) ==
    /\ variant = "step" /\ pc[t] = "spin"
    /\ view' = [view EXCEPT ![t] = AcquireLoad(view[t], relEpoch)]
    /\ IF step_ = current_step[t]
       THEN UNCHANGED <<pc, completed>>
       ELSE /\ pc' = [pc EXCEPT ![t] = "returned"]
            /\ completed' = [completed EXCEPT ![t] = @ + 1]
    /\ UNCHANGED <<variant, usage, nthreads, declared, spinning_threads_, sense_,
                   step_, my_sense, current_step, releases, relSpin, relEpoch,
                   observed, queueVars, testVars, factoryVars, sortVars, mergeVars>>

\* A mutation of SpinningAfterReset: the counter is not reset.
SpinningNotReset == spinning_threads_
\* The value the last arrival stores into spinning_threads_.
SpinningAfterReset == 0

\* spinning_threads_.store(0, relaxed) by the last arrival.
Reset(t) ==
    /\ pc[t] = "reset"
    /\ spinning_threads_' = SpinningAfterReset
    /\ relSpin' = RelaxedStore(view[t])
    /\ pc' = [pc EXCEPT ![t] = "release"]
    /\ UNCHANGED <<variant, usage, nthreads, declared, sense_, step_, my_sense,
                   current_step, completed, releases, view, relEpoch, observed,
                   queueVars, testVars, factoryVars, sortVars, mergeVars>>

\* sense_.store(~my_sense, release) and the return of the last arrival.
SenseFlip(t) ==
    /\ variant = "sense" /\ pc[t] = "release"
    /\ sense_' = UNot(my_sense[t])
    /\ relEpoch' = ReleaseStore(view[t])
    /\ releases' = releases + 1
    /\ pc' = [pc EXCEPT ![t] = "returned"]
    /\ completed' = [completed EXCEPT ![t] = @ + 1]
    /\ UNCHANGED <<variant, usage, nthreads, declared, spinning_threads_, step_,
                   my_sense, current_step, view, relSpin, observed, queueVars, testVars, factoryVars, sortVars, mergeVars>>

\* step_.fetch_add(1, release) and the return of the last arrival.
StepIncrement(t) ==
    /\ variant = "step" /\ pc[t] = "release"
    /\ step_' = UAdd1(step_)
    /\ relEpoch' = ReleaseRMW(view[t], relEpoch)
    /\ releases' = releases + 1
    /\ pc' = [pc EXCEPT ![t] = "returned"]
    /\ completed' = [completed EXCEPT ![t] = @ + 1]
    /\ UNCHANGED <<variant, usage, nthreads, declared, spinning_threads_, sense_,
                   my_sense, current_step, view, relSpin, observed, queueVars, testVars, factoryVars, sortVars, mergeVars>>

\* Back from its k-th Wait the caller reads what the phase's participants stored
\* before it; a read that no store happens-before is a data race and may see
\* either value.  Then the caller goes on to its next Wait or ends.
Resume(t) ==
    /\ pc[t] = "returned"
    /\ LET k == completed[t]
           synced == \A u \in Participants(k) : view[t][u] >= k
       IN /\ \E saw \in (IF synced THEN {TRUE} ELSE {TRUE, FALSE}) :
                observed' = [observed EXCEPT ![t] = @ /\ saw]
          /\ pc' = [pc EXCEPT ![t] = IF CallsAgain(t, k) THEN "call" ELSE "end"]
    /\ UNCHANGED <<variant, usage, nthreads, declared, spinning_threads_, sense_,
                   step_, my_sense, current_step, completed, releases, view,
                   relSpin, relEpoch, queueVars, testVars, factoryVars, sortVars, mergeVars>>

(* ------------------------------------------------------------------ *)
(* BlockingTaskQueue.                                                  *)
(* ------------------------------------------------------------------ *)
QueueThreads == 1 .. MaxQueueThreads
NoThread == 0
\* The empty std::function (nullptr).
NullTask == [by |-> 0, n |-> 0]

\* A mutation of MutexAvailable: the lock is not taken.
MutexIgnored == TRUE
\* std::lock_guard<std::mutex> lock(mutex_) can be constructed.
MutexAvailable == mutex_ = NoThread

\* A mutation of PushBackOf: the task is inserted at the front.
PushFrontOf(q, x) == <<x>> \o q
\* queue_.push_back(task)
PushBackOf(q, x) == Append(q, x)

\* Number of Push and Pop calls made so far.
Sum(f) == LET S[n \in 0 .. MaxQueueThreads] == IF n = 0 THEN 0 ELSE S[n - 1] + f[n]
          IN S[MaxQueueThreads]
CallsMade == Sum(pushes) + Sum(pops)
\* Calls one run may make: each thread of the test makes one Push and two Pops.
CallBudget == IF test_threads = 0 THEN MaxQueueOps ELSE 3 * test_threads

\* Push is called with the caller's next task and takes the lock.
PushLock(t) ==
    /\ qpc[t] = "idle" /\ CallsMade < CallBudget
    /\ MutexAvailable
    /\ mutex_' = t
    /\ pushes' = [pushes EXCEPT ![t] = @ + 1]
    /\ task' = [task EXCEPT ![t] = [by |-> t, n |-> pushes[t] + 1]]
    /\ qpc' = [qpc EXCEPT ![t] = "push_back"]
    /\ UNCHANGED <<queue_, pops, popped, barrierVars, testVars, factoryVars, sortVars, mergeVars>>

PushBack(t) ==
    /\ qpc[t] = "push_back"
    /\ queue_' = PushBackOf(queue_, task[t])
    /\ qpc' = [qpc EXCEPT ![t] = "push_return"]
    /\ UNCHANGED <<mutex_, task, pushes, pops, popped, barrierVars, testVars, factoryVars, sortVars, mergeVars>>

\* Push returns: the lock_guard releases the mutex.
PushReturn(t) ==
    /\ qpc[t] = "push_return"
    /\ mutex_' = NoThread
    /\ qpc' = [qpc EXCEPT ![t] = "idle"]
    /\ UNCHANGED <<queue_, task, pushes, pops, popped, barrierVars, testVars, factoryVars, sortVars, mergeVars>>

\* A mutation of EmptyResult: an empty Pop hands out a task nobody pushed.
EmptyResultPhantom == [by |-> 1, n |-> 1]
\* return nullptr;
EmptyResult == NullTask

\* Pop is called and takes the lock.
PopLock(t) ==
    /\ qpc[t] = "idle" /\ CallsMade < CallBudget
    /\ MutexAvailable
    /\ mutex_' = t
    /\ pops' = [pops EXCEPT ![t] = @ + 1]
    /\ qpc' = [qpc EXCEPT ![t] = "pop_check"]
    /\ UNCHANGED <<queue_, task, pushes, popped, barrierVars, testVars, factoryVars, sortVars, mergeVars>>

\* if (!queue_.empty()) task = std::move(queue_.front()); else return nullptr.
\* The moved-from front is left in a valid but unspecified state.
PopCheck(t) ==
    /\ qpc[t] = "pop_check"
    /\ IF queue_ # <<>>
       THEN /\ task' = [task EXCEPT ![t] = Head(queue_)]
            /\ \E residue \in {Head(queue_), NullTask} :
                   queue_' = [queue_ EXCEPT ![1] = residue]
            /\ qpc' = [qpc EXCEPT ![t] = "pop_front"]
       ELSE /\ task' = [task EXCEPT ![t] = EmptyResult]
            /\ queue_' = queue_
            /\ qpc' = [qpc EXCEPT ![t] = "pop_return"]
    /\ UNCHANGED <<mutex_, pushes, pops, popped, barrierVars, testVars, factoryVars, sortVars, mergeVars>>

\* queue_.pop_front(); on an empty deque the behaviour is undefined.
PopFront(t) ==
    /\ qpc[t] = "pop_front"
    /\ IF queue_ # <<>>
       THEN /\ queue_' = Tail(queue_)
            /\ qpc' = [qpc EXCEPT ![t] = "pop_return"]
       ELSE /\ queue_' = queue_
            /\ qpc' = [qpc EXCEPT ![t] = "undefined"]
    /\ UNCHANGED <<mutex_, task, pushes, pops, popped, barrierVars, testVars, factoryVars, sortVars, mergeVars>>

\* Pop returns `task` (or nullptr) and the lock_guard releases the mutex.
PopReturn(t) ==
    /\ qpc[t] = "pop_return"
    /\ mutex_' = NoThread
    /\ popped' = IF task[t] # NullTask THEN Append(popped, task[t]) ELSE popped
    /\ qpc' = [qpc EXCEPT ![t] = "idle"]
    /\ UNCHANGED <<queue_, task, pushes, pops, barrierVars, testVars, factoryVars, sortVars, mergeVars>>

(* ------------------------------------------------------------------ *)
(* The segmented bitonicsort: data operations.                         *)
(* ------------------------------------------------------------------ *)
\* Values of the elements to sort.
Values == 0 .. MaxValue
\* sizeof of the element types the sorts are instantiated with: int32_t and
\* int64_t.
ElementSizes == {4, 8}

\* std::sort(first, last): the elements in non-decreasing order.
StdSort(s) ==
    LET Count(v) == Cardinality({p \in DOMAIN s : s[p] = v})
        Build[v \in 0 .. (MaxValue + 1)] ==
            IF v > MaxValue THEN <<>>
            ELSE [p \in 1 .. Count(v) |-> v] \o Build[v + 1]
    IN Build[0]

\* The loops shared by the eight merges of merge.h.  i and j are the C indexes
\* into segment1 and segment2, di and dj the direction each index moves in;
\* an up merge takes segment1[i] when segment1[i] < segment2[j], a down merge
\* when segment1[i] > segment2[j], and segment2[j] otherwise.  The result is
\* the buffer.
RECURSIVE MergeLoop(_, _, _, _, _, _, _)
MergeLoop(segment1, segment2, i, j, di, dj, up) ==
    LET size == Len(segment1)
        in1 == i >= 0 /\ i < size
        in2 == j >= 0 /\ j < size
        left == <<segment1[i + 1]>> \o MergeLoop(segment1, segment2, i + di, j, di, dj, up)
        right == <<segment2[j + 1]>> \o MergeLoop(segment1, segment2, i, j + dj, di, dj, up)
    IN IF in1 /\ in2
       THEN IF (IF up THEN segment1[i + 1] < segment2[j + 1]
                ELSE segment1[i + 1] > segment2[j + 1])
            THEN left ELSE right
       ELSE IF in1 THEN left
       ELSE IF in2 THEN right
       ELSE <<>>

\* MergeUp: picks MergeUpFromUpUp, ...UpDn, ...DnUp or ...DnDn by comparing the
\* first and the last element of each segment.
MergeUp(segment1, segment2) ==
    LET l == 1
        r == Len(segment1)
        last == Len(segment1) - 1
    IN IF segment1[l] < segment1[r] /\ segment2[l] < segment2[r]
       THEN MergeLoop(segment1, segment2, 0, 0, 1, 1, TRUE)
       ELSE IF segment1[l] < segment1[r] /\ segment2[l] > segment2[r]
       THEN MergeLoop(segment1, segment2, 0, last, 1, -1, TRUE)
       ELSE IF segment1[l] > segment1[r] /\ segment2[l] < segment2[r]
       THEN MergeLoop(segment1, segment2, last, 0, -1, 1, TRUE)
       ELSE MergeLoop(segment1, segment2, last, last, -1, -1, TRUE)

\* MergeDn: picks MergeDnFromUpUp, ...UpDn, ...DnUp or ...DnDn the same way.
MergeDn(segment1, segment2) ==
    LET l == 1
        r == Len(segment1)
        last == Len(segment1) - 1
    IN IF segment1[l] < segment1[r] /\ segment2[l] < segment2[r]
       THEN MergeLoop(segment1, segment2, last, last, -1, -1, FALSE)
       ELSE IF segment1[l] < segment1[r] /\ segment2[l] > segment2[r]
       THEN MergeLoop(segment1, segment2, last, 0, -1, 1, FALSE)
       ELSE IF segment1[l] > segment1[r] /\ segment2[l] < segment2[r]
       THEN MergeLoop(segment1, segment2, 0, last, 1, -1, FALSE)
       ELSE MergeLoop(segment1, segment2, 0, 0, 1, 1, FALSE)

\* The elements of segment s (counted from 0) of d.
Segment(d, s, size) == SubSeq(d, s * size + 1, (s + 1) * size)

\* d after std::sort on segment s.
SortInto(d, s, size) ==
    LET sorted == StdSort(Segment(d, s, size))
    IN [p \in DOMAIN d |->
           IF (p - 1) \div size = s THEN sorted[p - s * size] ELSE d[p]]

\* `bytes` of Scatter.
CopiedBytes(size) == size * sizeof_int

\* Scatter: memcpy of `bytes` bytes from each half of the buffer to the start
\* of its segment.  An element is overwritten when the copy reaches its first
\* bytes; the elements are below 2^32 and the low-order bytes come first, so
\* that the first four bytes of an element carry its value.  The result is the
\* pair of segments.
Scatter(buffer, segment1, segment2, size) ==
    LET bytes == CopiedBytes(size)
        Reached(p) == (p - 1) * sizeof_T < bytes
    IN <<[p \in 1 .. size |-> IF Reached(p) THEN buffer[p] ELSE segment1[p]],
         [p \in 1 .. size |-> IF Reached(p) THEN buffer[size + p] ELSE segment2[p]]>>

\* d after merge::Up or merge::Dn on segments s1 and s2: the merge fills the
\* buffer and Scatter copies its halves back over the two segments.
MergeInto(d, s1, s2, up, size) ==
    LET segment1 == Segment(d, s1, size)
        segment2 == Segment(d, s2, size)
        buffer == IF up THEN MergeUp(segment1, segment2)
                  ELSE MergeDn(segment1, segment2)
        copied == Scatter(buffer, segment1, segment2, size)
    IN [p \in DOMAIN d |->
           IF (p - 1) \div size = s1 THEN copied[1][p - s1 * size]
           ELSE IF (p - 1) \div size = s2 THEN copied[2][p - s2 * size]
           ELSE d[p]]

\* i ^ j for j a power of two.
Xor(i, j) == IF (i \div j) % 2 = 0 THEN i + j ELSE i - j
\* (i & k) == 0 for k a power of two.
IsUp(i, k) == (i \div k) % 2 = 0

\* bitonicsort::segmented as a function of its input: every segment sorted,
\* then the loops over k, j and i of the merging network.
Segmented(d, size) ==
    LET n == Len(d) \div size
        RECURSIVE SortAll(_, _)
        SortAll(x, s) == IF s >= n THEN x ELSE SortAll(SortInto(x, s, size), s + 1)
        RECURSIVE Network(_, _, _, _)
        Network(x, k, j, i) ==
            IF k > n THEN x
            ELSE IF j = 0 THEN Network(x, 2 * k, k, 0)
            ELSE IF i >= n THEN Network(x, k, j \div 2, 0)
            ELSE Network(IF i < Xor(i, j)
                         THEN MergeInto(x, i, Xor(i, j), IsUp(i, k), size)
                         ELSE x,
                         k, j, i + 1)
    IN Network(SortAll(d, 0), 2, 1, 0)

(* ------------------------------------------------------------------ *)
(* The segmented bitonicsort: the five ways of running it.  Push and   *)
(* Pop of a BlockingTaskQueue are taken as single steps (they run      *)
(* under its mutex); an access that races with another, or that goes   *)
(* through a reference to a local of a thread that has returned, may   *)
(* do anything, which position "undefined" of the task stands for.     *)
(* ------------------------------------------------------------------ *)
SortThreads == 0 .. (MaxSortThreads - 1)
Workers == 0 .. (num_threads - 1)
num_segments == Len(data) \div segment_size
NoIndex == -1
NoTask == [kind |-> "none", seg1 |-> 0, seg2 |-> 0, up |-> TRUE,
           counts |-> FALSE, refs |-> NoIndex, pc |-> "begin"]

\* low_segment and high_segment of a thread.
Low(t) == t * (num_segments \div num_threads)
High(t) == Low(t) + (num_segments \div num_threads)

\* A mutation of NextKJ: the loop over j makes one iteration for every k.
NextKJOnce(kj) == IF kj[1] = 0 THEN <<2, 1>> ELSE <<2 * kj[1], kj[1]>>
\* The (k, j) that follows kj in `for (k = 2; ...; k <<= 1) for (j = k >> 1;
\* j > 0; j >>= 1)`; <<0, 0>> stands for the local sort before the loops.
NextKJ(kj) ==
    IF kj[2] > 1 THEN <<kj[1], kj[2] \div 2>>
    ELSE IF kj[1] = 0 THEN <<2, 1>>
    ELSE <<2 * kj[1], kj[1]>>

\* A mutation of NextLower: the test `if (i < ij)` is dropped.
NextLowerUntested(t, from, kj) == IF from < High(t) THEN from ELSE High(t)
\* The first i >= from of the thread's loop over its segments that passes
\* `if (i < ij)`, or high_segment when the loop ends.
NextLower(t, from, kj) ==
    LET S == {i \in from .. (High(t) - 1) : i < Xor(i, kj[2])}
    IN IF S = {} THEN High(t) ELSE CHOOSE i \in S : \A x \in S : i <= x

\* The tasks: std::sort of a segment, or merge::Up / merge::Dn of a pair;
\* counts says whether it ends with fetch_add on segment_stage_count, refs
\* names the thread whose locals it captured by reference.
SortTask(i, counts, refs) ==
    [kind |-> "sort", seg1 |-> i, seg2 |-> i, up |-> TRUE,
     counts |-> counts, refs |-> refs, pc |-> "begin"]
MergeTask(i, kj, counts) ==
    [kind |-> "merge", seg1 |-> i, seg2 |-> Xor(i, kj[2]), up |-> IsUp(i, kj[1]),
     counts |-> counts, refs |-> NoIndex, pc |-> "begin"]

\* The thread is in none of execute_tasks, steal_tasks or a task.
Idle(t) == running[t] = NoTask /\ queue_index[t] = NoIndex /\ steal_i[t] = NoIndex
\* The thread is at a statement of thread_work itself.
AtMain(t) == Idle(t) /\ wpc[t] = "out"

\* The task thread t runs touches a segment a running task of another thread
\* touches, or uses a reference to a local of a thread that has returned.
Hazard(t) ==
    \/ running[t].refs # NoIndex /\ spc[running[t].refs] = "done"
    \/ /\ running[t].pc \in {"begin", "end"}
       /\ \E u \in Workers \ {t} :
             /\ running[u].kind # "none" /\ running[u].pc = "end"
             /\ {running[u].seg1, running[u].seg2}
                    \cap {running[t].seg1, running[t].seg2} # {}

\* Values a relaxed load of thread_stage_count[j] may return: the counter only
\* grows, and any value it has had may still be the one read.
RelaxedStageLoad(j) == 0 .. thread_stage_count[j]

\* A mutation of StageReached: the wait ends when the counter is past the stage.
StageReachedPast(stage, seg) == stage < segment_stage_count[seg]
\* A mutation of StageReached: the wait is skipped.
StageReachedAlways(stage, seg) == TRUE
\* The test of `while (my_stage != segment_stage_count[seg].load())`, negated.
StageReached(stage, seg) == stage = segment_stage_count[seg]

\* Nothing is being sorted.
NoSortRuns ==
    /\ mode = "segmented" /\ num_threads = 0 /\ segment_size = 1
    /\ input = <<>> /\ data = <<>>
    /\ task_runs = <<>>
    /\ spc = [t \in SortThreads |-> "off"]
    /\ loop_kj = [t \in SortThreads |-> <<0, 0>>]
    /\ loop_i = [t \in SortThreads |-> 0]
    /\ my_stage = [t \in SortThreads |-> 0]
    /\ segment_stage_count = <<>>
    /\ thread_stage_count = [t \in SortThreads |-> 0]
    /\ queue = [t \in SortThreads |-> <<>>]
    /\ running = [t \in SortThreads |-> NoTask]
    /\ queue_index = [t \in SortThreads |-> NoIndex]
    /\ steal_i = [t \in SortThreads |-> NoIndex]
    /\ stealer_stage = [t \in SortThreads |-> 0]
    /\ barrier = [spinning_threads_ |-> 0, sense_ |-> UZero]
    /\ wpc = [t \in SortThreads |-> "out"]
    /\ wait_sense = [t \in SortThreads |-> UZero]
    /\ wait_calls = [t \in SortThreads |-> 0]

\* Nothing is being sorted, and no merge called: the element type is int.
SortUnused == sizeof_T = sizeof_int /\ NoSortRuns

\* No merge is called on its own.
MergeUnused ==
    /\ m_call = "none" /\ m_input = <<>> /\ m_buffer = <<>>
    /\ m_sources = <<>> /\ m_output = <<>>

(* ------------------------------------------------------------------ *)
(* Specifications.                                                     *)
(* ------------------------------------------------------------------ *)
\* No barrier thread is launched.
BarrierUnused ==
    /\ variant = "sense" /\ usage = "uniform" /\ nthreads = 0 /\ declared = 0
    /\ spinning_threads_ = 0 /\ sense_ = UZero /\ step_ = UZero
    /\ pc = [t \in Threads |-> "end"]
    /\ my_sense = [t \in Threads |-> UZero]
    /\ current_step = [t \in Threads |-> UZero]
    /\ completed = [t \in Threads |-> 0]
    /\ releases = 0
    /\ view = [t \in Threads |-> NoStores]
    /\ relSpin = NoStores /\ relEpoch = NoStores
    /\ observed = [t \in Threads |-> TRUE]

\* No factory method has been called.
FactoryUnused ==
    /\ barrier_type = 0 /\ new_barrier = "none"
    /\ queue_type = 0 /\ new_queue = "none"

\* The test ConcurrentTaskQueueExecution is not running.
TestUnused ==
    /\ test_threads = 0 /\ counter = 0
    /\ ran = [t \in QueueThreads |-> "no"]
    /\ executed = <<>>

\* No queue thread is running.
QueueUnused ==
    /\ TestUnused
    /\ queue_ = <<>> /\ mutex_ = NoThread
    /\ qpc = [t \in QueueThreads |-> "end"]
    /\ task = [t \in QueueThreads |-> NullTask]
    /\ pushes = [t \in QueueThreads |-> 0]
    /\ pops = [t \in QueueThreads |-> 0]
    /\ popped = <<>>

\* A barrier between phases and the threads of one test about to use it.  The
\* sense barrier is freshly constructed; the step barrier has completed 0,
\* 2^32 - 2 or 2^32 - 1 phases, so that step_ wraps within the run.
BarrierInit ==
    /\ variant \in {"sense", "step"}
    /\ usage \in {"uniform", "tree", "short"}
    /\ nthreads \in 1 .. MaxThreads
    /\ usage = "tree" => IsPow2(nthreads)
    /\ usage = "uniform" => nthreads <= MaxUniformThreads
    /\ declared \in (IF usage = "short" THEN (nthreads + 1) .. (MaxThreads + 1)
                     ELSE {nthreads})
    /\ spinning_threads_ = 0
    /\ sense_ = UZero
    /\ step_ \in (IF variant = "step" THEN {UZero, UPred(UMax), UMax} ELSE {UZero})
    /\ pc = [t \in Threads |-> IF t < nthreads THEN "call" ELSE "end"]
    /\ my_sense = [t \in Threads |-> UZero]
    /\ current_step = [t \in Threads |-> UZero]
    /\ completed = [t \in Threads |-> 0]
    /\ releases = 0
    /\ view = [t \in Threads |-> NoStores]
    /\ relSpin = NoStores /\ relEpoch = NoStores
    /\ observed = [t \in Threads |-> TRUE]
    /\ QueueUnused /\ FactoryUnused /\ SortUnused /\ MergeUnused

ThreadStep(t) ==
    \/ SenseLoad(t) \/ StepLoad(t) \/ Arrive(t)
    \/ SenseSpin(t) \/ StepSpin(t)
    \/ Reset(t) \/ SenseFlip(t) \/ StepIncrement(t)
    \/ Resume(t)

BarrierNext == \E t \in Threads : ThreadStep(t)

BarrierSpec == BarrierInit /\ [][BarrierNext]_vars

\* Preemptive OS threads: a thread that can take a step eventually takes one.
BarrierFairSpec == BarrierSpec /\ \A t \in Threads : WF_vars(ThreadStep(t))

QueueInit ==
    /\ BarrierUnused /\ TestUnused /\ FactoryUnused /\ SortUnused /\ MergeUnused
    /\ queue_ = <<>> /\ mutex_ = NoThread
    /\ qpc = [t \in QueueThreads |-> "idle"]
    /\ task = [t \in QueueThreads |-> NullTask]
    /\ pushes = [t \in QueueThreads |-> 0]
    /\ pops = [t \in QueueThreads |-> 0]
    /\ popped = <<>>

QueueStep(t) ==
    \/ PushLock(t) \/ PushBack(t) \/ PushReturn(t)
    \/ PopLock(t) \/ PopCheck(t) \/ PopFront(t) \/ PopReturn(t)

QueueNext == \E t \in QueueThreads : QueueStep(t)

QueueSpec == QueueInit /\ [][QueueNext]_vars

(* ------------------------------------------------------------------ *)
(* The test ConcurrentTaskQueueExecution: every thread pushes one task, *)
(* pops and calls one, waits at a barrier for the others and pops again. *)
(* ------------------------------------------------------------------ *)
Testers == 1 .. test_threads

\* A mutation of Rendezvous: the threads do not wait for each other.
RendezvousSkipped == TRUE
\* barrier->Wait(num_threads) returns once every thread has called it, which
\* each thread does after calling the task it popped.
Rendezvous == \A u \in Testers : ran[u] = "yes"

\* task(): the popped task takes the test's mutex and increments counter; a
\* call of an empty std::function throws std::bad_function_call.
RunTask(t) ==
    /\ qpc[t] = "idle" /\ pops[t] = 1 /\ ran[t] = "no"
    /\ IF task[t] # NullTask
       THEN /\ counter' = counter + 1
            /\ executed' = Append(executed, task[t])
            /\ ran' = [ran EXCEPT ![t] = "yes"]
       ELSE /\ ran' = [ran EXCEPT ![t] = "bad_function_call"]
            /\ UNCHANGED <<counter, executed>>
    /\ UNCHANGED <<test_threads, queueVars, barrierVars, factoryVars, sortVars, mergeVars>>

TestInit ==
    /\ BarrierUnused /\ FactoryUnused /\ SortUnused /\ MergeUnused
    /\ test_threads \in 1 .. MaxQueueThreads
    /\ counter = 0
    /\ ran = [t \in QueueThreads |-> "no"]
    /\ executed = <<>>
    /\ queue_ = <<>> /\ mutex_ = NoThread
    /\ qpc = [t \in QueueThreads |-> IF t <= test_threads THEN "idle" ELSE "end"]
    /\ task = [t \in QueueThreads |-> NullTask]
    /\ pushes = [t \in QueueThreads |-> 0]
    /\ pops = [t \in QueueThreads |-> 0]
    /\ popped = <<>>

\* The body of one thread of the test, statement by statement.
TestStep(t) ==
    \/ (pushes[t] = 0 /\ PushLock(t))
    \/ PushBack(t) \/ PushReturn(t)
    \/ (pushes[t] = 1 /\ pops[t] = 0 /\ PopLock(t))
    \/ PopCheck(t) \/ PopFront(t) \/ PopReturn(t)
    \/ RunTask(t)
    \/ (pops[t] = 1 /\ ran[t] = "yes" /\ Rendezvous /\ PopLock(t))

TestNext == \E t \in QueueThreads : TestStep(t)

TestSpec == TestInit /\ [][TestNext]_vars

(* ------------------------------------------------------------------ *)
(* Factory methods Barrier::Create and ConcurrentTaskQueue::Create.    *)
(* ------------------------------------------------------------------ *)
\* enum class BarrierType
kCentralSenseCounterBarrier == 0
kCentralStepCounterBarrier == 1
\* enum class ConcurrentTaskQueueType
kBlockingTaskQueue == 0
\* Values a caller can pass, by static_cast, as a type tag.
TypeTags == 0 .. MaxTypeTag

\* A mutation of BarrierCreate: an unknown tag falls back to a default class.
BarrierCreateDefaulting(type) ==
    IF type = kCentralStepCounterBarrier THEN "CentralStepCounterBarrier"
    ELSE "CentralSenseCounterBarrier"
\* switch (type) of Barrier::Create, with return nullptr after it.
BarrierCreate(type) ==
    CASE type = kCentralSenseCounterBarrier -> "CentralSenseCounterBarrier"
      [] type = kCentralStepCounterBarrier -> "CentralStepCounterBarrier"
      [] OTHER -> "nullptr"

\* switch (type) of ConcurrentTaskQueue::Create, with return nullptr after it.
QueueCreate(type) ==
    CASE type = kBlockingTaskQueue -> "BlockingTaskQueue"
      [] OTHER -> "nullptr"

CallBarrierCreate ==
    /\ \E type \in TypeTags :
          /\ barrier_type' = type
          /\ new_barrier' = BarrierCreate(type)
    /\ UNCHANGED <<queue_type, new_queue, barrierVars, queueVars, testVars, sortVars, mergeVars>>

CallQueueCreate ==
    /\ \E type \in TypeTags :
          /\ queue_type' = type
          /\ new_queue' = QueueCreate(type)
    /\ UNCHANGED <<barrier_type, new_barrier, barrierVars, queueVars, testVars, sortVars, mergeVars>>

\* Nothing has been created yet.
FactoryInit ==
    /\ BarrierUnused /\ QueueUnused /\ SortUnused /\ MergeUnused
    /\ barrier_type = 0 /\ new_barrier = "none"
    /\ queue_type = 0 /\ new_queue = "none"

FactoryNext == CallBarrierCreate \/ CallQueueCreate

FactorySpec == FactoryInit /\ [][FactoryNext]_vars

(* ------------------------------------------------------------------ *)
(* The merges of merge.h, called on their own.                         *)
(* ------------------------------------------------------------------ *)
\* Largest size of the segments handed to a merge.
MergeSizes == 1 .. MaxDataSize
\* s is in non-decreasing order.
NonDecreasing(s) == \A p \in 1 .. (Len(s) - 1) : s[p] <= s[p + 1]
\* s is in non-increasing order.
NonIncreasing(s) == \A p \in 1 .. (Len(s) - 1) : s[p] >= s[p + 1]

\* The loops of MergeLoop again, giving for every element written to the
\* buffer the segment it was read from: 1 for segment1, 2 for segment2.
RECURSIVE MergeSources(_, _, _, _, _, _, _)
MergeSources(segment1, segment2, i, j, di, dj, up) ==
    LET size == Len(segment1)
        in1 == i >= 0 /\ i < size
        in2 == j >= 0 /\ j < size
        left == <<1>> \o MergeSources(segment1, segment2, i + di, j, di, dj, up)
        right == <<2>> \o MergeSources(segment1, segment2, i, j + dj, di, dj, up)
    IN IF in1 /\ in2
       THEN IF (IF up THEN segment1[i + 1] < segment2[j + 1]
                ELSE segment1[i + 1] > segment2[j + 1])
            THEN left ELSE right
       ELSE IF in1 THEN left
       ELSE IF in2 THEN right
       ELSE <<>>

\* The call returns: the buffer has been filled and scattered over the two
\* segments.
MergeReturns(name, buffer, sources) ==
    /\ m_call = "none"
    /\ m_call' = name
    /\ m_buffer' = buffer
    /\ m_sources' = sources
    /\ m_output' = Scatter(buffer, m_input[1], m_input[2], Len(m_input[1]))
    /\ UNCHANGED <<m_input, barrierVars, queueVars, testVars, factoryVars, sortVars>>

\* merge::MergeUp(segment1, segment2, buffer, size); which of its four loops
\* ran is not recorded, so neither are the sources.
CallMergeUp ==
    /\ m_input # <<>>
    /\ MergeReturns("MergeUp", MergeUp(m_input[1], m_input[2]), <<>>)

\* merge::MergeDn(segment1, segment2, buffer, size).
CallMergeDn ==
    /\ m_input # <<>>
    /\ MergeReturns("MergeDn", MergeDn(m_input[1], m_input[2]), <<>>)

\* merge::MergeUpFromUpUp on two segments in non-decreasing order.
CallMergeUpFromUpUp ==
    /\ NonDecreasing(m_input[1]) /\ NonDecreasing(m_input[2])
    /\ MergeReturns("MergeUpFromUpUp",
                    MergeLoop(m_input[1], m_input[2], 0, 0, 1, 1, TRUE),
                    MergeSources(m_input[1], m_input[2], 0, 0, 1, 1, TRUE))

\* merge::MergeDnFromDnDn on two segments in non-increasing order.
CallMergeDnFromDnDn ==
    /\ NonIncreasing(m_input[1]) /\ NonIncreasing(m_input[2])
    /\ MergeReturns("MergeDnFromDnDn",
                    MergeLoop(m_input[1], m_input[2], 0, 0, 1, 1, FALSE),
                    MergeSources(m_input[1], m_input[2], 0, 0, 1, 1, FALSE))

\* Two segments of the same size, each monotone in one direction or the
\* other, of elements of one of the types the sorts are instantiated with, are
\* about to be merged.
MergeInit ==
    /\ BarrierUnused /\ QueueUnused /\ FactoryUnused /\ NoSortRuns
    /\ sizeof_T \in ElementSizes
    /\ m_call = "none" /\ m_buffer = <<>> /\ m_sources = <<>> /\ m_output = <<>>
    /\ \E size \in MergeSizes :
          /\ m_input \in [1 .. 2 -> [1 .. size -> Values]]
          /\ \A n \in 1 .. 2 : NonDecreasing(m_input[n]) \/ NonIncreasing(m_input[n])

MergeNext ==
    CallMergeUp \/ CallMergeDn \/ CallMergeUpFromUpUp \/ CallMergeDnFromDnDn

MergeSpec == MergeInit /\ [][MergeNext]_vars

(* ------------------------------------------------------------------ *)
(* The segmented bitonicsort: steps of the threads.                    *)
(* ------------------------------------------------------------------ *)
\* A task starts: its arguments are read and it begins to work on its segments.
TaskBegin(t) ==
    /\ running[t].kind # "none" /\ running[t].pc = "begin"
    /\ \E next \in (IF Hazard(t) THEN {"end", "undefined"} ELSE {"end"}) :
          running' = [running EXCEPT ![t].pc = next]
    /\ UNCHANGED <<sortParams, data, task_runs, spc, loop_kj, loop_i, my_stage,
                   segment_stage_count, thread_stage_count, queue, queue_index,
                   steal_i, stealer_stage, barrier, wpc, wait_sense, wait_calls, restVars>>

\* std::sort, merge::Up or merge::Dn returns, having rewritten the segments.
TaskEnd(t) ==
    /\ running[t].kind # "none" /\ running[t].pc = "end"
    /\ task_runs' = [s \in DOMAIN task_runs |->
                       IF s \in {running[t].seg1, running[t].seg2}
                       THEN task_runs[s] + 1 ELSE task_runs[s]]
    /\ data' = IF running[t].kind = "sort"
               THEN SortInto(data, running[t].seg1, segment_size)
               ELSE MergeInto(data, running[t].seg1, running[t].seg2,
                              running[t].up, segment_size)
    /\ running' = [running EXCEPT ![t] =
                      IF @.counts THEN [@ EXCEPT !.pc = "add1"] ELSE NoTask]
    /\ UNCHANGED <<sortParams, spc, loop_kj, loop_i, my_stage,
                   segment_stage_count, thread_stage_count, queue, queue_index,
                   steal_i, stealer_stage, barrier, wpc, wait_sense, wait_calls, restVars>>

\* segment_stage_count[id].fetch_add(1): once after a sort, for segment1 and
\* then for segment2 after a merge.
TaskAdd(t) ==
    /\ running[t].pc \in {"add1", "add2"}
    /\ \/ /\ segment_stage_count' =
                [segment_stage_count EXCEPT
                    ![IF running[t].pc = "add1" THEN running[t].seg1
                      ELSE running[t].seg2] = @ + 1]
          /\ running' = [running EXCEPT ![t] =
                            IF @.kind = "merge" /\ @.pc = "add1"
                            THEN [@ EXCEPT !.pc = "add2"] ELSE NoTask]
       \/ /\ Hazard(t)
          /\ running' = [running EXCEPT ![t].pc = "undefined"]
          /\ UNCHANGED segment_stage_count
    /\ UNCHANGED <<sortParams, data, task_runs, spc, loop_kj, loop_i, my_stage,
                   thread_stage_count, queue, queue_index,
                   steal_i, stealer_stage, barrier, wpc, wait_sense, wait_calls, restVars>>

\* A mutation of RestAfterPop: the task stays in the queue.
RestAfterPopKept(q) == q
\* queue_.pop_front() of Pop: what is left in the queue.
RestAfterPop(q) == Tail(q)

\* execute_tasks: task = queue[queue_index]->Pop(); if (task == nullptr) break;
\* otherwise task() is called.  A return into the loop of steal_tasks moves
\* that loop on.
ExecPop(t) ==
    /\ running[t] = NoTask /\ queue_index[t] # NoIndex
    /\ IF queue[queue_index[t]] = <<>>
       THEN /\ queue_index' = [queue_index EXCEPT ![t] = NoIndex]
            /\ steal_i' = [steal_i EXCEPT ![t] = IF @ = NoIndex THEN @ ELSE @ + 1]
            /\ UNCHANGED <<queue, running>>
       ELSE /\ running' = [running EXCEPT ![t] = Head(queue[queue_index[t]])]
            /\ queue' = [queue EXCEPT ![queue_index[t]] = RestAfterPop(@)]
            /\ UNCHANGED <<queue_index, steal_i>>
    /\ UNCHANGED <<sortParams, data, task_runs, spc, loop_kj, loop_i, my_stage,
                   segment_stage_count, thread_stage_count,
                   stealer_stage, barrier, wpc, wait_sense, wait_calls, restVars>>

\* A mutation of StolenQueue: the index is shifted by one.
StolenQueueShifted(i) == (i + 1) % num_threads
\* The argument of the call execute_tasks(i % num_threads) in steal_tasks.
StolenQueue(i) == i % num_threads

\* One turn of the loop of steal_tasks over the other threads' queues: the
\* stealing sort drains each, the wait-free sort each whose thread it read to
\* be at an earlier stage; after the loop the stealing sort calls wait_policy.
StealNext(t) ==
    /\ running[t] = NoTask /\ queue_index[t] = NoIndex /\ steal_i[t] # NoIndex
    /\ IF steal_i[t] < num_threads + t
       THEN \E seen \in RelaxedStageLoad(steal_i[t] % num_threads) :
               IF mode = "stealing" \/ stealer_stage[t] > seen
               THEN /\ queue_index' = [queue_index EXCEPT ![t] = StolenQueue(steal_i[t])]
                    /\ UNCHANGED steal_i
               ELSE /\ steal_i' = [steal_i EXCEPT ![t] = @ + 1]
                    /\ UNCHANGED queue_index
       ELSE /\ steal_i' = [steal_i EXCEPT ![t] = NoIndex]
            /\ UNCHANGED queue_index
    /\ UNCHANGED <<sortParams, data, task_runs, spc, loop_kj, loop_i, my_stage,
                   segment_stage_count, thread_stage_count, queue, running,
                   stealer_stage, barrier, wpc, wait_sense, wait_calls, restVars>>

\* Wait of the sense barrier: spinning_threads_.fetch_add(1) and its test.
WaitArrive(t) ==
    /\ wpc[t] = "arrive"
    /\ barrier' = [barrier EXCEPT !.spinning_threads_ = @ + 1]
    /\ wpc' = [wpc EXCEPT ![t] =
                  IF ArrivesEarly(barrier.spinning_threads_, num_threads)
                  THEN "spin" ELSE "reset"]
    /\ UNCHANGED <<sortParams, data, task_runs, spc, loop_kj, loop_i, my_stage,
                   segment_stage_count, thread_stage_count, queue, running,
                   queue_index, steal_i, stealer_stage, wait_sense, wait_calls, restVars>>

\* A mutation of PolicyCall: the loop of steal_tasks begins at the caller's own queue.
PolicyCallOwn(t) == IF mode = "stealing" THEN t ELSE NoIndex
\* A mutation of PolicyCall: the policy of every sort only yields.
PolicyYields(t) == NoIndex
\* What the call policy() in the loop of Wait starts: the policy the stealing
\* sort passes is steal_tasks, whose loop begins at i = stealer_index + 1; the
\* one of the blocking sort only yields.
PolicyCall(t) == IF mode = "stealing" THEN t + 1 ELSE NoIndex

\* while (sense_.load() == my_sense) policy().
WaitSpin(t) ==
    /\ wpc[t] = "spin" /\ Idle(t)
    /\ IF barrier.sense_ = wait_sense[t]
       THEN /\ steal_i' = [steal_i EXCEPT ![t] = PolicyCall(t)]
            /\ UNCHANGED wpc
       ELSE /\ wpc' = [wpc EXCEPT ![t] = "out"]
            /\ UNCHANGED steal_i
    /\ UNCHANGED <<sortParams, data, task_runs, spc, loop_kj, loop_i, my_stage,
                   segment_stage_count, thread_stage_count, queue, running,
                   queue_index, stealer_stage, barrier, wait_sense, wait_calls, restVars>>

\* The last arrival: spinning_threads_.store(0).
WaitReset(t) ==
    /\ wpc[t] = "reset"
    /\ barrier' = [barrier EXCEPT !.spinning_threads_ = SpinningAfterReset]
    /\ wpc' = [wpc EXCEPT ![t] = "flip"]
    /\ UNCHANGED <<sortParams, data, task_runs, spc, loop_kj, loop_i, my_stage,
                   segment_stage_count, thread_stage_count, queue, running,
                   queue_index, steal_i, stealer_stage, wait_sense, wait_calls, restVars>>

\* The last arrival: sense_.store(~my_sense), and Wait returns.
WaitFlip(t) ==
    /\ wpc[t] = "flip"
    /\ barrier' = [barrier EXCEPT !.sense_ = UNot(wait_sense[t])]
    /\ wpc' = [wpc EXCEPT ![t] = "out"]
    /\ UNCHANGED <<sortParams, data, task_runs, spc, loop_kj, loop_i, my_stage,
                   segment_stage_count, thread_stage_count, queue, running,
                   queue_index, steal_i, stealer_stage, wait_sense, wait_calls, restVars>>

\* barrier->Wait(num_threads, policy) is called: my_sense = sense_.load(); the
\* thread goes on at `then` when Wait returns.
EnterWait(t, then) ==
    /\ wait_sense' = [wait_sense EXCEPT ![t] = barrier.sense_]
    /\ wait_calls' = [wait_calls EXCEPT ![t] = @ + 1]
    /\ wpc' = [wpc EXCEPT ![t] = "arrive"]
    /\ spc' = [spc EXCEPT ![t] = then]

\* A mutation of StepEntry: no sort has a Wait at the top of a (k, j).
StepEntryUnguarded == "merge"
\* Where the body of the loop over j begins: the stealing sort has a Wait
\* there, before the loop over i.
StepEntry == IF mode = "stealing" THEN "before" ELSE "merge"

\* The loops over k and j move on to the next (k, j), or end and thread_work
\* returns.
Advance(t) ==
    LET kj == NextKJ(loop_kj[t])
    IN IF kj[1] > num_segments
       THEN /\ spc' = [spc EXCEPT ![t] = "done"]
            /\ UNCHANGED <<loop_kj, loop_i>>
       ELSE /\ spc' = [spc EXCEPT ![t] = StepEntry]
            /\ loop_kj' = [loop_kj EXCEPT ![t] = kj]
            /\ loop_i' = [loop_i EXCEPT ![t] = NextLower(t, Low(t), kj)]

\* segmented, blocking, lockfree: std::sort of the thread's next segment.
InlineSort(t) ==
    /\ mode \in {"segmented", "blocking", "lockfree"}
    /\ AtMain(t) /\ spc[t] = "sort" /\ loop_i[t] < High(t)
    /\ running' = [running EXCEPT ![t] = SortTask(loop_i[t], mode = "lockfree", NoIndex)]
    /\ loop_i' = [loop_i EXCEPT ![t] = @ + 1]
    /\ UNCHANGED <<sortParams, data, task_runs, spc, loop_kj, my_stage,
                   segment_stage_count, thread_stage_count, queue,
                   queue_index, steal_i, stealer_stage, barrier, wpc,
                   wait_sense, wait_calls, restVars>>

\* stealing, waitfree: queue[thread_index]->Push([&, i] { std::sort... }).
PushSort(t) ==
    /\ mode \in {"stealing", "waitfree"}
    /\ AtMain(t) /\ spc[t] = "sort" /\ loop_i[t] < High(t)
    /\ queue' = [queue EXCEPT ![t] = Append(@, SortTask(loop_i[t], mode = "waitfree", t))]
    /\ loop_i' = [loop_i EXCEPT ![t] = @ + 1]
    /\ UNCHANGED <<sortParams, data, task_runs, spc, loop_kj, my_stage,
                   segment_stage_count, thread_stage_count, running,
                   queue_index, steal_i, stealer_stage, barrier, wpc,
                   wait_sense, wait_calls, restVars>>

\* What follows the loop over the thread's segments, in the local sort and in
\* every (k, j): nothing (segmented), barrier->Wait (blocking), ++my_stage
\* (lockfree), execute_tasks(thread_index) (stealing, waitfree).
LoopEnd(t) ==
    /\ AtMain(t) /\ spc[t] \in {"sort", "merge"} /\ loop_i[t] = High(t)
    /\ CASE mode = "segmented" ->
              /\ Advance(t)
              /\ UNCHANGED <<my_stage, queue_index, wpc, wait_sense, wait_calls>>
         [] mode = "blocking" ->
              /\ EnterWait(t, "synced")
              /\ UNCHANGED <<my_stage, queue_index, loop_kj, loop_i>>
         [] mode = "lockfree" ->
              /\ my_stage' = [my_stage EXCEPT ![t] = @ + 1]
              /\ Advance(t)
              /\ UNCHANGED <<queue_index, wpc, wait_sense, wait_calls>>
         [] OTHER ->
              /\ queue_index' = [queue_index EXCEPT ![t] = t]
              /\ spc' = [spc EXCEPT ![t] = "drained"]
              /\ UNCHANGED <<my_stage, wpc, wait_sense, wait_calls, loop_kj, loop_i>>
    /\ UNCHANGED <<sortParams, data, task_runs, segment_stage_count, thread_stage_count,
                   queue, running, steal_i, stealer_stage, barrier, restVars>>

\* After execute_tasks(thread_index): barrier->Wait(num_threads, steal_tasks)
\* (stealing) or steal_tasks(thread_index), which first loads the caller's own
\* thread_stage_count (waitfree).
Drained(t) ==
    /\ AtMain(t) /\ spc[t] = "drained"
    /\ IF mode = "stealing"
       THEN /\ EnterWait(t, "synced")
            /\ UNCHANGED <<steal_i, stealer_stage>>
       ELSE /\ stealer_stage' = [stealer_stage EXCEPT ![t] = thread_stage_count[t]]
            /\ steal_i' = [steal_i EXCEPT ![t] = t + 1]
            /\ spc' = [spc EXCEPT ![t] = "stolen"]
            /\ UNCHANGED <<wpc, wait_sense, wait_calls>>
    /\ UNCHANGED <<sortParams, data, task_runs, loop_kj, loop_i, my_stage,
                   segment_stage_count, thread_stage_count, queue, running,
                   queue_index, barrier, restVars>>

\* waitfree: thread_stage_count[thread_index].fetch_add(1).
StageIncrement(t) ==
    /\ AtMain(t) /\ spc[t] = "stolen"
    /\ thread_stage_count' = [thread_stage_count EXCEPT ![t] = @ + 1]
    /\ Advance(t)
    /\ UNCHANGED <<sortParams, data, task_runs, my_stage, segment_stage_count, queue,
                   running, queue_index, steal_i, stealer_stage, barrier, wpc,
                   wait_sense, wait_calls, restVars>>

\* blocking, stealing: the Wait that ends the local sort or a (k, j) returned.
Synced(t) ==
    /\ AtMain(t) /\ spc[t] = "synced"
    /\ Advance(t)
    /\ UNCHANGED <<sortParams, data, task_runs, my_stage, segment_stage_count,
                   thread_stage_count, queue, running, queue_index, steal_i,
                   stealer_stage, barrier, wpc, wait_sense, wait_calls, restVars>>

\* stealing: the Wait at the top of every (k, j).
Before(t) ==
    /\ AtMain(t) /\ spc[t] = "before"
    /\ EnterWait(t, "merge")
    /\ UNCHANGED <<sortParams, data, task_runs, loop_kj, loop_i, my_stage,
                   segment_stage_count, thread_stage_count, queue, running,
                   queue_index, steal_i, stealer_stage, barrier, restVars>>

\* lockfree, waitfree: one test of the two loops that wait for segment1 and
\* then for segment2 to be at the thread's stage; while it is not, the lockfree
\* sort calls wait_policy and the waitfree sort steal_tasks.
Await(t) ==
    /\ mode \in {"lockfree", "waitfree"}
    /\ AtMain(t) /\ spc[t] \in {"merge", "await2"} /\ loop_i[t] < High(t)
    /\ IF StageReached(IF mode = "lockfree" THEN my_stage[t] ELSE thread_stage_count[t],
                       IF spc[t] = "merge" THEN loop_i[t]
                       ELSE Xor(loop_i[t], loop_kj[t][2]))
       THEN /\ spc' = [spc EXCEPT ![t] = IF @ = "merge" THEN "await2" ELSE "go"]
            /\ UNCHANGED <<steal_i, stealer_stage>>
       ELSE /\ steal_i' = [steal_i EXCEPT ![t] = IF mode = "waitfree" THEN t + 1 ELSE @]
            /\ stealer_stage' = [stealer_stage EXCEPT ![t] =
                                    IF mode = "waitfree" THEN thread_stage_count[t] ELSE @]
            /\ UNCHANGED spc
    /\ UNCHANGED <<sortParams, data, task_runs, loop_kj, loop_i, my_stage,
                   segment_stage_count, thread_stage_count, queue, running,
                   queue_index, barrier, wpc, wait_sense, wait_calls, restVars>>

\* segmented, blocking, lockfree: merge::Up or merge::Dn on the pair of the
\* thread's next i with i < ij.
InlineMerge(t) ==
    /\ \/ mode \in {"segmented", "blocking"} /\ spc[t] = "merge"
       \/ mode = "lockfree" /\ spc[t] = "go"
    /\ AtMain(t) /\ loop_i[t] < High(t)
    /\ running' = [running EXCEPT ![t] = MergeTask(loop_i[t], loop_kj[t], mode = "lockfree")]
    /\ loop_i' = [loop_i EXCEPT ![t] = NextLower(t, @ + 1, loop_kj[t])]
    /\ spc' = [spc EXCEPT ![t] = "merge"]
    /\ UNCHANGED <<sortParams, data, task_runs, loop_kj, my_stage,
                   segment_stage_count, thread_stage_count, queue,
                   queue_index, steal_i, stealer_stage, barrier, wpc,
                   wait_sense, wait_calls, restVars>>

\* stealing, waitfree: queue[thread_index]->Push of the merge of the pair.
PushMerge(t) ==
    /\ \/ mode = "stealing" /\ spc[t] = "merge"
       \/ mode = "waitfree" /\ spc[t] = "go"
    /\ AtMain(t) /\ loop_i[t] < High(t)
    /\ queue' = [queue EXCEPT ![t] =
                    Append(@, MergeTask(loop_i[t], loop_kj[t], mode = "waitfree"))]
    /\ loop_i' = [loop_i EXCEPT ![t] = NextLower(t, @ + 1, loop_kj[t])]
    /\ spc' = [spc EXCEPT ![t] = "merge"]
    /\ UNCHANGED <<sortParams, data, task_runs, loop_kj, my_stage,
                   segment_stage_count, thread_stage_count, running,
                   queue_index, steal_i, stealer_stage, barrier, wpc,
                   wait_sense, wait_calls, restVars>>

\* sort is called on a range that meets its preconditions: segment_size and
\* num_segments powers of two, num_segments a multiple of num_threads; the
\* threads are launched with the counters at 0 and the queues empty.
SortInit ==
    /\ BarrierUnused /\ QueueUnused /\ FactoryUnused /\ MergeUnused
    /\ mode \in {"segmented", "blocking", "lockfree", "stealing", "waitfree"}
    /\ segment_size \in {s \in 1 .. MaxDataSize : IsPow2(s)}
    /\ sizeof_T \in ElementSizes
    /\ \E n \in {s \in 1 .. MaxDataSize : IsPow2(s) /\ s * segment_size <= MaxDataSize} :
          data \in [1 .. (n * segment_size) -> Values]
    /\ input = data
    /\ task_runs = [s \in 0 .. (num_segments - 1) |-> 0]
    /\ num_threads \in {n \in 1 .. MaxSortThreads :
                           num_segments % n = 0 /\ (mode = "segmented" => n = 1)}
    /\ spc = [t \in SortThreads |-> IF t < num_threads THEN "sort" ELSE "off"]
    /\ loop_kj = [t \in SortThreads |-> <<0, 0>>]
    /\ loop_i = [t \in SortThreads |-> IF t < num_threads THEN Low(t) ELSE 0]
    /\ my_stage = [t \in SortThreads |-> 0]
    /\ segment_stage_count = [s \in 0 .. (num_segments - 1) |-> 0]
    /\ thread_stage_count = [t \in SortThreads |-> 0]
    /\ queue = [t \in SortThreads |-> <<>>]
    /\ running = [t \in SortThreads |-> NoTask]
    /\ queue_index = [t \in SortThreads |-> NoIndex]
    /\ steal_i = [t \in SortThreads |-> NoIndex]
    /\ stealer_stage = [t \in SortThreads |-> 0]
    /\ barrier = [spinning_threads_ |-> 0, sense_ |-> UZero]
    /\ wpc = [t \in SortThreads |-> "out"]
    /\ wait_sense = [t \in SortThreads |-> UZero]
    /\ wait_calls = [t \in SortThreads |-> 0]

WorkerStep(t) ==
    \/ InlineSort(t) \/ PushSort(t) \/ LoopEnd(t) \/ Drained(t)
    \/ StageIncrement(t) \/ Synced(t) \/ Before(t) \/ Await(t)
    \/ InlineMerge(t) \/ PushMerge(t)
    \/ TaskBegin(t) \/ TaskEnd(t) \/ TaskAdd(t) \/ ExecPop(t) \/ StealNext(t)
    \/ WaitArrive(t) \/ WaitSpin(t) \/ WaitReset(t) \/ WaitFlip(t)

SortNext == \E t \in Workers : WorkerStep(t)

SortSpec == SortInit /\ [][SortNext]_vars

(* ------------------------------------------------------------------ *)
(* Properties of the barriers.                                         *)
(* ------------------------------------------------------------------ *)
InWait == {"arrive", "spin", "reset", "release"}
Epoch == IF variant = "sense" THEN sense_ ELSE step_
Snapshot(t) == IF variant = "sense" THEN my_sense[t] ELSE current_step[t]

\* C1: with every caller passing num_threads = N, no caller has returned from
\* its k-th Wait unless all N callers have invoked their k-th Wait; so while
\* only N-1 callers are inside Wait none of them has returned.
C1_NoEarlyReturn ==
    usage = "uniform" =>
        \A t \in Launched : \A u \in Launched : Called(u) >= completed[t]

\* One caller is back from the first phase while another, having arrived, has
\* not yet seen the release.
C1_Witness ==
    /\ usage = "uniform" /\ nthreads >= 2
    /\ \E t, u \in Launched :
          /\ completed[t] = 1 /\ pc[t] = "returned"
          /\ completed[u] = 0 /\ pc[u] = "spin"

\* C2: every store a participant makes before calling Wait happens before, and
\* is seen by, every read a participant makes after returning from that Wait.
C2_WritesVisibleAfterWait ==
    /\ \A t \in Threads : observed[t]
    /\ \A t \in Launched :
          pc[t] = "returned" =>
              \A u \in Participants(completed[t]) : view[t][u] >= completed[t]

\* A thread that spun in a phase of several threads has read the others' stores.
C2_Witness ==
    /\ nthreads >= 2
    /\ \E t \in Launched :
          /\ pc[t] = "call" /\ completed[t] >= 1 /\ observed[t]
          /\ \A u \in Launched : view[t][u] >= 1

\* C3: when all N participants call Wait(N), every caller inside Wait
\* eventually returns from it, under fair scheduling, for both variants.
C3_UniformWaitReturns ==
    \A t \in Threads :
        (usage = "uniform" /\ pc[t] \in InWait) ~> (pc[t] = "returned")

\* Several threads have gone through every phase.
C3_Witness ==
    /\ usage = "uniform" /\ nthreads >= 2
    /\ \A t \in Launched : pc[t] = "end" /\ completed[t] = MaxPhases

\* Nobody can move again although somebody is still inside Wait.
Stuck ==
    /\ \A t \in Launched : pc[t] \in {"spin", "end"}
    /\ \E t \in Launched : pc[t] = "spin"
    /\ \A t \in Launched : pc[t] = "spin" => Snapshot(t) = Epoch

\* C4: one instance reused by the same N threads keeps the phases apart: the
\* numbers of Waits completed by two participants never differ by more than
\* one, a release is never early, and the threads never get stuck.
C4_PhasesStaySeparate ==
    usage = "uniform" =>
        /\ \A t, u \in Launched : completed[t] - completed[u] <= 1
        /\ \A t, u \in Launched : Called(t) - Called(u) <= 1
        /\ ~Stuck

\* A thread is already spinning in the second phase while a slower one has not
\* yet left the first.
C4_Witness ==
    /\ usage = "uniform"
    /\ \E t, u \in Launched :
          /\ pc[t] = "spin" /\ completed[t] = 1
          /\ pc[u] = "spin" /\ completed[u] = 0

\* C5: in the merging tree (N, N/2, ..., 1 participants on one instance) no
\* thread has returned from the k-th phase's Wait unless every participant of
\* that phase has called Wait in it.
C5_TreeNoEarlyReturn ==
    usage = "tree" =>
        \A t \in Launched : \A k \in 1 .. completed[t] :
            \A u \in Participants(k) : Called(u) >= k

\* Thread 0 has gone through the whole tree.
C5_Witness ==
    /\ usage = "tree" /\ nthreads >= 4
    /\ pc[0] = "end" /\ Pow2(completed[0] - 1) = nthreads

\* C6: in the merging tree every thread that calls Wait eventually returns
\* from it, under fair scheduling, for both variants, also a waiter that looks
\* at the epoch only after later phases have completed.
C6_TreeWaitReturns ==
    \A t \in Threads :
        (usage = "tree" /\ pc[t] \in InWait) ~> (pc[t] = "returned")

\* C6, as a property of single states: in the merging tree no waiter is left
\* spinning on an epoch equal to its snapshot once every other thread has
\* finished, for from there on nothing changes the epoch and it never returns.
C6_TreeNoWaiterStranded == usage = "tree" => ~Stuck

\* C7: when fewer than num_threads threads call Wait, none of them ever
\* returns: each ends up spinning and stays there.
C7_ShortPhaseHangs ==
    /\ [](usage = "short" =>
            \A t \in Launched : completed[t] = 0 /\ pc[t] \in {"call", "arrive", "spin"})
    /\ (usage = "short" => <>[](\A t \in Launched : pc[t] = "spin"))

\* All callers, one fewer than declared, are spinning.
C7_Witness ==
    /\ usage = "short" /\ nthreads >= 2 /\ declared = nthreads + 1
    /\ \A t \in Launched : pc[t] = "spin"
    /\ spinning_threads_ = nthreads

\* C8: the step barrier survives the wrap of step_: at the maximum the last
\* arrival's increment makes it 0, the waiters that snapshotted the maximum
\* are released, and the phases after the wrap complete like the others.
C8_StepWrap ==
    /\ [][(variant = "step" /\ step_ = UMax /\ step_' # step_) => step_' = UZero]_vars
    /\ \A t \in Threads :
          (variant = "step" /\ pc[t] = "spin" /\ current_step[t] = UMax /\ usage # "short")
              ~> (pc[t] = "returned" /\ current_step[t] = UMax)
    /\ [](variant = "step" /\ usage = "uniform" =>
            \A t \in Launched : \A u \in Launched : Called(u) >= completed[t])
    /\ (variant = "step" /\ usage = "uniform" =>
            <>(\A t \in Launched : pc[t] = "end" /\ completed[t] = MaxPhases))

\* Every thread of a phase entered at the maximum is back, and step_ is 0.
C8_Witness ==
    /\ variant = "step" /\ nthreads >= 2 /\ step_ = UZero
    /\ \A t \in Launched : pc[t] = "returned" /\ current_step[t] = UMax

(* ------------------------------------------------------------------ *)
(* Properties of the task queue.                                       *)
(* ------------------------------------------------------------------ *)
Range(f) == {f[i] : i \in DOMAIN f}

\* C9: of two tasks pushed by one thread, the one pushed earlier is never
\* returned by Pop after the one pushed later.
C9_FifoPerPusher ==
    \A i, j \in DOMAIN popped :
        (i < j /\ popped[i].by = popped[j].by) => popped[i].n < popped[j].n

\* Two tasks of one pusher were returned with another pusher's task between.
C9_Witness ==
    /\ Len(popped) >= 3
    /\ popped[1].by = popped[3].by /\ popped[2].by # popped[1].by

\* Tasks whose push_back has run.
Appended ==
    {x \in [by : QueueThreads, n : 1 .. MaxQueueOps] :
        x.n <= pushes[x.by] - (IF qpc[x.by] = "push_back" THEN 1 ELSE 0)}
\* Threads whose Pop has moved the front out but not yet removed it.
Movers == {t \in QueueThreads : qpc[t] = "pop_front"}
\* Threads whose Pop has removed a task and not yet returned it.
Holders == {t \in QueueThreads : qpc[t] = "pop_return" /\ task[t] # NullTask}
\* The tasks in the queue, the front being the one a Pop is moving out.
Content ==
    IF Movers # {} /\ queue_ # <<>>
    THEN <<task[CHOOSE t \in Movers : TRUE]>> \o Tail(queue_)
    ELSE queue_

\* C10: every pushed task is returned by at most one Pop and none is lost: the
\* tasks pushed so far are the tasks popped and the tasks still in the queue.
C10_NoLossNoDuplicate ==
    /\ Range(popped) \cup Range(Content) \cup {task[t] : t \in Holders} = Appended
    /\ Len(popped) + Len(Content) + Cardinality(Holders) = Cardinality(Appended)
    /\ \A t \in QueueThreads : qpc[t] # "undefined"

\* Every thread has pushed and popped, and every pushed task has been returned.
C10_Witness ==
    /\ \A t \in QueueThreads : pushes[t] >= 1 /\ pops[t] >= 1 /\ qpc[t] = "idle"
    /\ queue_ = <<>>
    /\ Len(popped) = Sum(pushes) /\ Len(popped) >= 3

\* C11: Pop on an empty queue returns the null task at once and leaves the
\* queue empty: the caller, holding the lock, can always take its next step
\* whether or not anybody pushes, that step goes straight to the return with
\* the null task, and the queue is still empty when the call returns.
C11_EmptyPopReturnsNull ==
    /\ [](\A t \in QueueThreads :
            qpc[t] \in {"pop_check", "pop_return"} => ENABLED QueueStep(t))
    /\ [][\A t \in QueueThreads :
            /\ (qpc[t] = "pop_check" /\ queue_ = <<>>) =>
                  /\ queue_' = <<>>
                  /\ qpc'[t] # qpc[t] => (qpc'[t] = "pop_return" /\ task'[t] = NullTask)
            /\ (qpc[t] = "pop_return" /\ task[t] = NullTask) =>
                  /\ queue_ = <<>> /\ queue_' = <<>>
                  /\ qpc'[t] # qpc[t] => (qpc'[t] = "idle" /\ popped' = popped)]_vars

\* A Pop is about to return the null task while no thread has pushed anything.
C11_Witness ==
    /\ \E t \in QueueThreads : qpc[t] = "pop_return" /\ task[t] = NullTask
    /\ Sum(pushes) = 0 /\ queue_ = <<>>

\* Whether a Pop call of t has handed its result back.
Returned(t, n) == pops[t] = n /\ qpc[t] = "idle"

\* C12: when each of N threads pushes one task and then pops one, every such
\* Pop returns a task and never the null one, each of the N tasks is called
\* exactly once (counter ends at N), and a Pop made after all threads have
\* popped returns null.
C12_PushOnePopOne ==
    /\ \A t \in Testers : Returned(t, 1) => task[t] # NullTask
    /\ \A t \in Testers : ran[t] # "bad_function_call"
    /\ counter = Len(executed)
    /\ \A i, j \in DOMAIN executed : i # j => executed[i] # executed[j]
    /\ Range(executed) \subseteq {[by |-> t, n |-> 1] : t \in Testers}
    /\ (\A t \in Testers : ran[t] = "yes") => counter = test_threads
    /\ \A t \in Testers : Returned(t, 2) => task[t] = NullTask

\* Several threads have each called one task, and the last Pop of each has
\* returned null with the counter at N.
C12_Witness ==
    /\ test_threads >= 2 /\ counter = test_threads
    /\ \A t \in Testers : Returned(t, 2) /\ task[t] = NullTask
    /\ Len(executed) = test_threads /\ queue_ = <<>>

(* ------------------------------------------------------------------ *)
(* Properties of the factory methods.                                  *)
(* ------------------------------------------------------------------ *)
\* C13: Barrier::Create and ConcurrentTaskQueue::Create return a null pointer
\* for a type tag outside the supported enumeration and an instance for every
\* supported tag.
C13_CreateNullForUnsupported ==
    /\ new_barrier # "none" =>
          (new_barrier = "nullptr" <=>
              barrier_type \notin {kCentralSenseCounterBarrier, kCentralStepCounterBarrier})
    /\ new_queue # "none" => (new_queue = "nullptr" <=> queue_type # kBlockingTaskQueue)

\* The tests' unsupported tag gave no barrier, and the supported tag a queue.
C13_Witness ==
    /\ barrier_type = 42 /\ new_barrier = "nullptr"
    /\ queue_type = kBlockingTaskQueue /\ new_queue = "BlockingTaskQueue"

(* ------------------------------------------------------------------ *)
(* Properties of the segmented bitonicsort.                            *)
(* ------------------------------------------------------------------ *)
\* d is in non-decreasing order.
Sorted(d) == \A p \in 1 .. (Len(d) - 1) : d[p] <= d[p + 1]
\* Every thread of the sort has returned from thread_work.
SortDone == \A t \in Workers : spc[t] = "done"
\* How often value v occurs in d.
Occurrences(d, v) == Cardinality({p \in DOMAIN d : d[p] = v})
\* d and e hold the same multiset of elements.
SameElements(d, e) == \A v \in Values : Occurrences(d, v) = Occurrences(e, v)

\* C14: in every mode and for every input that meets the preconditions,
\* repeated values included, the range is in non-decreasing order once the
\* sort has returned.
C14_SortedOnReturn == SortDone => Sorted(data)

\* C15: in every mode and for every input the range holds the multiset of the
\* input after the sort, and after every step of it: no std::sort and no merge
\* drops or duplicates an element.
C15_SameMultiset == SameElements(data, input)

Touched(t) == IF running[t].kind = "none" THEN {}
              ELSE {running[t].seg1, running[t].seg2}

\* C17: in the blocking mode, while a thread works on a local sort or on a
\* merge of a (k, j), every other thread is in the same step or has finished
\* all its work of the step before and is inside the Wait that ends it; no
\* thread is a step ahead, so no merge starts before every local sort and
\* every merge of the step before have finished, and two threads never work
\* on the same segment at the same time.
C17_BarrierSeparatesSteps ==
    mode = "blocking" =>
        \A t \in Workers : running[t].kind # "none" =>
            /\ running[t].pc # "undefined"
            /\ \A u \in Workers \ {t} :
                  /\ \/ loop_kj[u] = loop_kj[t]
                     \/ /\ NextKJ(loop_kj[u]) = loop_kj[t]
                        /\ spc[u] = "synced" /\ running[u].kind = "none"
                  /\ Touched(u) \cap Touched(t) = {}

\* Both threads of a blocking sort are inside merges of the step (4, 1), the
\* third that a Wait separates from the one before.
C17_Witness ==
    /\ mode = "blocking" /\ num_threads = 2
    /\ \A t \in Workers :
          /\ running[t].kind = "merge" /\ running[t].pc = "end"
          /\ loop_kj[t] = <<4, 1>>

\* The segments of the std::sort or merge that thread t has in progress: the
\* task has started and has not yet returned.
InProgress(t) == IF running[t].pc \in {"begin", "end"} THEN Touched(t) ELSE {}

\* C18: in the lock-free mode two workers never have a sort or merge in
\* progress on a common segment, and while a worker in its stage s has a merge
\* in progress, each of the two segments has been written and counted exactly
\* s times: the sort or merge that wrote it in stage s - 1, by whichever
\* worker, has finished, and nobody has gone on to write it since.
C18_LockfreeMergesOrdered ==
    mode = "lockfree" =>
        \A t \in Workers :
            /\ running[t].pc # "undefined"
            /\ \A u \in Workers \ {t} : InProgress(t) \cap InProgress(u) = {}
            /\ \A seg \in InProgress(t) :
                  segment_stage_count[seg] =
                      (IF running[t].kind = "merge" THEN my_stage[t] ELSE 0)

\* Thread 0, in its stage 2, merges its segment 0 with segment 2, which thread
\* 1 wrote in stage 1; thread 1 is already waiting in stage 3.
C18_Witness ==
    /\ mode = "lockfree" /\ num_threads = 2
    /\ running[0].kind = "merge" /\ running[0].pc = "end"
    /\ running[0].seg1 = 0 /\ running[0].seg2 = 2
    /\ my_stage[0] = 2 /\ my_stage[1] = 3
    /\ segment_stage_count[2] = 2

\* C19: in the wait-free mode, whenever a worker pops a task from the queue of
\* another worker j, thread_stage_count of the popping worker is greater than
\* thread_stage_count[j] at that moment; this holds for every task taken while
\* the queue is drained, not only for the first.
C19_StealOnlyFromEarlierStage ==
    [][\A t \in Workers :
          (/\ mode = "waitfree"
           /\ running[t] = NoTask /\ running'[t] # NoTask
           /\ queue_index[t] \notin {NoIndex, t})
          => thread_stage_count[t] > thread_stage_count[queue_index[t]]]_vars

\* Worker t spins in the Wait of a stealing sort, which has not been released,
\* while the queue of worker u holds a task.
SpinsWhileQueued(t, u) ==
    /\ mode = "stealing" /\ wpc[t] = "spin" /\ barrier.sense_ = wait_sense[t]
    /\ queue[u] # <<>>
\* Worker t is executing a task that it popped from the queue of worker u.
Executes(t, u) == running[t].kind # "none" /\ queue_index[t] = u

\* C20: in the stealing mode, a worker that keeps being scheduled and spins at
\* the barrier while the queue of another worker holds tasks comes to pop and
\* execute a task from that queue, unless the queue is emptied by others
\* first; it does so however slowly the worker that enqueued the tasks runs,
\* even if that worker never takes another step.
C20_SpinnerExecutesQueuedTasks ==
    \A t \in SortThreads :
        WF_vars(WorkerStep(t)) =>
            \A u \in SortThreads \ {t} :
                SpinsWhileQueued(t, u) ~> (Executes(t, u) \/ queue[u] = <<>>)

\* Worker 0 spins at the barrier and executes a merge that worker 1 enqueued,
\* while worker 1 has not started any of its tasks of this step.
C20_Witness ==
    /\ mode = "stealing" /\ wpc[0] = "spin" /\ barrier.sense_ = wait_sense[0]
    /\ Executes(0, 1) /\ running[0].kind = "merge"
    /\ running[0].seg1 \in Low(1) .. (High(1) - 1)
    /\ running[1] = NoTask /\ spc[1] = "merge"

(* ------------------------------------------------------------------ *)
(* Properties of the merges.                                           *)
(* ------------------------------------------------------------------ *)
\* The two segments as one sequence, before and after the call.
InputElements == m_input[1] \o m_input[2]
OutputElements == m_output[1] \o m_output[2]

\* C21: for two segments of equal length, each monotone in either direction
\* (a segment whose first and last elements are equal included), MergeUp
\* leaves the concatenation of the two segments in ascending order and MergeDn
\* in descending order, with the multiset of the elements it was given.
C21_MergeOrdersConcatenation ==
    /\ m_call = "MergeUp" =>
          NonDecreasing(OutputElements) /\ SameElements(OutputElements, InputElements)
    /\ m_call = "MergeDn" =>
          NonIncreasing(OutputElements) /\ SameElements(OutputElements, InputElements)

\* C22: when the two candidate elements of a merge compare equal, the one of
\* segment1 is written to the buffer before the one of segment2: in the buffer
\* of MergeUpFromUpUp and of MergeDnFromDnDn no element of segment2 stands
\* before an equal element of segment1.
C22_TiePrefersLeftSegment ==
    m_call \in {"MergeUpFromUpUp", "MergeDnFromDnDn"} =>
        \A p, q \in DOMAIN m_buffer :
            (p < q /\ m_buffer[p] = m_buffer[q]) =>
                ~(m_sources[p] = 2 /\ m_sources[q] = 1)

(* ------------------------------------------------------------------ *)
(* Properties of the barriers' counter and epoch.                      *)
(* ------------------------------------------------------------------ *)
\* Thread t has made the fetch_add of a Wait that is its k-th.
ArrivedFor(t, k) == pc[t] \in {"spin", "reset", "release"} /\ completed[t] + 1 = k

\* C23: spinning_threads_ lies in 0 .. num_threads, for the num_threads of
\* every Wait whose caller has arrived and not yet seen or made the release,
\* and it is 0 whenever a phase has been released and no thread has arrived
\* for a later one.
C23_SpinningBounded ==
    /\ spinning_threads_ \in 0 .. nthreads
    /\ \A t \in Threads :
          pc[t] \in {"spin", "reset"} =>
              spinning_threads_ <= NumThreadsArg(completed[t])
    /\ (releases >= 1 /\ \A t \in Threads : \A k \in 1 .. (MaxPhases + 1) :
                            ArrivedFor(t, k) => k <= releases)
          => spinning_threads_ = 0

\* A phase of three threads has been released and one of them still spins on
\* the old epoch while nobody has arrived for the next phase.
C23_Witness ==
    /\ releases = 1 /\ nthreads = 3 /\ spinning_threads_ = 0
    /\ \E t \in Launched : pc[t] = "spin" /\ completed[t] = 0
    /\ \A t \in Launched : ~ArrivedFor(t, 2)

\* The callers that took the last-arrival branch and have not yet returned.
LastArrivals == {t \in Threads : pc[t] \in {"reset", "release"}}

\* C24: every phase has exactly one last arrival and one change of the epoch:
\* at most one caller is in the last-arrival branch at a time, and it is there
\* for the phase after the last released one; no caller has returned from more
\* Waits than there were changes of the epoch, and every participant of the
\* last released phase has called its Wait; the epoch changes only by the step
\* of a last arrival that has already stored 0 into spinning_threads_, and the
\* value it writes differs from the one the spinners of its phase loaded.
C24_OneReleasePerPhase ==
    /\ [](/\ Cardinality(LastArrivals) <= 1
          /\ \A t \in LastArrivals : completed[t] = releases
          /\ \A t \in Threads : completed[t] <= releases
          /\ releases >= 1 => \A t \in Participants(releases) : releases <= Called(t)
          /\ \A t \in Threads : pc[t] = "release" =>
                spinning_threads_ = 0 /\ Snapshot(t) = Epoch)
    /\ [][Epoch' # Epoch <=>
             /\ releases' = releases + 1
             /\ spinning_threads_ = 0 /\ spinning_threads_' = 0
             /\ \E t \in LastArrivals : pc[t] = "release" /\ pc'[t] = "returned"]_vars

\* The second phase of three threads is being released: its last arrival has
\* reset the counter and is about to change the epoch a second time.
C24_Witness ==
    /\ nthreads = 3 /\ releases = 1
    /\ \E t \in Launched : pc[t] = "release" /\ completed[t] = 1
    /\ \A t \in Launched : Called(t) = 2

\* Thread t is inside a Wait that it called with num_threads = 1.
InWaitAlone(t) == pc[t] \in InWait /\ NumThreadsArg(completed[t]) = 1
\* The next step of t is a call of the waiting policy inside the spin loop.
InvokesPolicy(t) == pc[t] = "spin" /\ Epoch = Snapshot(t)

\* C25: a Wait(1) whose caller is the only thread inside the barrier never
\* enters the spin loop and so never calls the waiting policy; its fetch_add
\* leads to the last-arrival branch, which stores 0 into spinning_threads_,
\* changes the epoch and returns; a caller of Wait(1) always returns.
C25_WaitOneReturnsAtOnce ==
    /\ [](\A t \in Threads : InWaitAlone(t) => pc[t] # "spin" /\ ~InvokesPolicy(t))
    /\ [][\A t \in Threads : (InWaitAlone(t) /\ pc'[t] # pc[t]) =>
             /\ pc[t] = "arrive" => pc'[t] = "reset"
             /\ pc[t] = "reset" => pc'[t] = "release" /\ spinning_threads_' = 0
             /\ pc[t] = "release" =>
                   /\ pc'[t] = "returned" /\ completed'[t] = completed[t] + 1
                   /\ spinning_threads_' = 0 /\ Epoch' # Epoch]_vars
    /\ \A t \in Threads : InWaitAlone(t) ~> pc[t] = "returned"

\* The first of four threads has closed a merging tree: its third Wait, the
\* one with num_threads = 1, has returned and it has ended.
C25_Witness ==
    /\ usage = "tree" /\ nthreads = 4
    /\ pc[0] = "end" /\ completed[0] = 3 /\ releases = 3
    /\ NumThreadsArg(2) = 1 /\ spinning_threads_ = 0

(* ------------------------------------------------------------------ *)
(* Properties of the lock-free sort's stage counters.                  *)
(* ------------------------------------------------------------------ *)
\* Number of (k, j) that the loops over k and j go through for n segments.
RECURSIVE CountKJ(_, _)
CountKJ(kj, n) ==
    LET next == NextKJ(kj) IN IF next[1] > n THEN 0 ELSE 1 + CountKJ(next, n)
NumSteps == CountKJ(<<0, 0>>, num_segments)

\* The segment whose counter the fetch_add that thread t is at increments.
Adding(t) == IF running[t].pc = "add1" THEN running[t].seg1 ELSE running[t].seg2
\* Thread t is at a fetch_add of the task of its own loop.
AtAdd(t) == running[t].pc \in {"add1", "add2"}

\* C26: in a lock-free sort segment_stage_count[seg] changes only by one
\* fetch_add of 1 at the end of a task on seg that belongs to the stage the
\* counter shows (the local sort for 0, a merge of the s-th (k, j) for s),
\* made by the worker whose range holds the segment, or the lower segment of
\* the pair; so the counter is the number of stages seg has completed, never
\* more than 1 + the number of (k, j) steps and exactly that when all workers
\* have returned.
C26_CountIsStagesCompleted ==
    /\ [](mode = "lockfree" =>
             \A seg \in DOMAIN segment_stage_count :
                /\ segment_stage_count[seg] \in 0 .. (1 + NumSteps)
                /\ SortDone => segment_stage_count[seg] = 1 + NumSteps)
    /\ [][mode = "lockfree" =>
             \A seg \in DOMAIN segment_stage_count :
                segment_stage_count'[seg] # segment_stage_count[seg] =>
                   /\ segment_stage_count'[seg] = segment_stage_count[seg] + 1
                   /\ \E t \in Workers :
                         /\ AtAdd(t) /\ Adding(t) = seg
                         /\ my_stage[t] = segment_stage_count[seg]
                         /\ running[t].kind = "sort" <=> my_stage[t] = 0
                         /\ running[t].seg1 \in Low(t) .. (High(t) - 1)
                         /\ running[t].seg1 <= running[t].seg2]_vars

\* Two workers have returned from a lock-free sort of four segments, each of
\* which has been counted once for the local sort and once for each of the
\* three (k, j).
C26_Witness ==
    /\ mode = "lockfree" /\ SortDone /\ num_threads = 2 /\ num_segments = 4
    /\ NumSteps = 3
    /\ \A seg \in DOMAIN segment_stage_count : segment_stage_count[seg] = 4

\* The second segment of the pair that thread t's loop is at.
Partner(t) == Xor(loop_i[t], loop_kj[t][2])

\* C27: in a lock-free sort the step that begins a merge finds the counters of
\* both its segments equal to the worker's my_stage; the counter of segment1,
\* found equal first, is still equal while the worker waits for segment2 and
\* when both waits are over.
C27_BothCountersAtStageOnMerge ==
    /\ [](mode = "lockfree" =>
             \A t \in Workers :
                /\ (AtMain(t) /\ spc[t] \in {"await2", "go"}) =>
                      segment_stage_count[loop_i[t]] = my_stage[t]
                /\ (AtMain(t) /\ spc[t] = "go") =>
                      segment_stage_count[Partner(t)] = my_stage[t])
    /\ [][mode = "lockfree" =>
             \A t \in Workers :
                (running[t].kind = "none" /\ running'[t].kind = "merge") =>
                   /\ segment_stage_count[running'[t].seg1] = my_stage[t]
                   /\ segment_stage_count[running'[t].seg2] = my_stage[t]
                   /\ my_stage'[t] = my_stage[t]
                   /\ segment_stage_count' = segment_stage_count]_vars

\* A worker has begun the merge of a segment of its own with a segment of the
\* other worker, after waiting for the two counters in turn.
C27_Witness ==
    /\ mode = "lockfree" /\ num_threads = 2
    /\ \E t \in Workers :
          /\ running[t].kind = "merge" /\ running[t].pc = "begin"
          /\ running[t].seg2 >= High(t)
          /\ segment_stage_count[running[t].seg1] = my_stage[t]
          /\ segment_stage_count[running[t].seg2] = my_stage[t]

\* Thread t of a lock-free sort is at the waits for, or at the call of the
\* merge of, the pair its loop is at.
AtPair(t) ==
    AtMain(t) /\ spc[t] \in {"merge", "await2", "go"} /\ loop_i[t] < High(t)

\* C28: in a lock-free sort the counter of a segment is never above the
\* my_stage of a worker that waits for that segment or is about to merge it,
\* so a wait that tests for inequality cannot miss the value it waits for.
C28_CounterNeverPastWaiter ==
    mode = "lockfree" =>
        \A t \in Workers :
            AtPair(t) =>
                /\ segment_stage_count[loop_i[t]] <= my_stage[t]
                /\ segment_stage_count[Partner(t)] <= my_stage[t]

\* A worker in a (k, j) waits for a segment of the other worker whose counter
\* is still below its stage.
C28_Witness ==
    /\ mode = "lockfree" /\ num_threads = 2
    /\ \E t \in Workers :
          /\ AtPair(t) /\ spc[t] = "await2" /\ my_stage[t] >= 2
          /\ Partner(t) >= High(t)
          /\ segment_stage_count[Partner(t)] < my_stage[t]

\* C29: when every worker that can take a step eventually takes one, a
\* lock-free sort whose num_segments is a multiple of num_threads ends: every
\* worker leaves its last (k, j) and returns, whether or not it has a pair to
\* merge in each (k, j).
C29_LockfreeTerminates ==
    (\A t \in SortThreads : WF_vars(WorkerStep(t))) =>
        ((mode = "lockfree" /\ num_segments % num_threads = 0) ~> SortDone)

\* Two workers have returned from a lock-free sort of two segments, in whose
\* only (k, j) the second worker had no pair and advanced without waiting.
C29_Witness ==
    /\ mode = "lockfree" /\ SortDone /\ num_threads = 2 /\ num_segments = 2
    /\ my_stage[0] = 2 /\ my_stage[1] = 2
    /\ NextLower(1, Low(1), <<2, 1>>) = High(1)

(* ------------------------------------------------------------------ *)
(* The number of steps of the merging network.                         *)
(* ------------------------------------------------------------------ *)
\* log2(n) for n a power of two.
RECURSIVE Log2(_)
Log2(n) == IF n <= 1 THEN 0 ELSE 1 + Log2(n \div 2)

\* get_barrier_stages for the parallel sorts.
get_barrier_stages(n) == (Log2(n) * (Log2(n) + 1)) \div 2

RECURSIVE StepsBetween(_, _)
StepsBetween(from, to) == IF from = to THEN 0 ELSE 1 + StepsBetween(NextKJ(from), to)
\* Number of stages before (k, j): the local sort and the (k, j) before it.
StageOf(kj) == StepsBetween(<<0, 0>>, kj)

\* The segments of a thread's block.
Block(t) == Low(t) .. (High(t) - 1)
\* The lower segments of the pairs of a step with distance j of S segments.
LowerOfPairs(j, S) == {i \in 0 .. (S - 1) : i < Xor(i, j)}
\* The values of j of the loops for S segments.
Distances(S) == {j \in 1 .. S : IsPow2(j) /\ 2 * j <= S}
\* low_segment .. high_segment - 1 of thread t of n threads for S segments.
BlockOf(t, S, n) == (t * (S \div n)) .. (t * (S \div n) + (S \div n) - 1)

\* For S segments and n threads: in every step every segment is in exactly
\* one pair, and the lower segment of every pair is in exactly one block.
PairsPartition(S, n) ==
    \A j \in Distances(S) :
        /\ \A x \in 0 .. (S - 1) :
              Cardinality({i \in LowerOfPairs(j, S) : x \in {i, Xor(i, j)}}) = 1
        /\ \A i \in LowerOfPairs(j, S) :
              Cardinality({t \in 0 .. (n - 1) : i \in BlockOf(t, S, n)}) = 1

\* C31: in every (k, j) each segment is in exactly one pair (i, i ^ j) with
\* i < i ^ j and the i of each pair is in exactly one worker's block; in the
\* blocking sort a worker starts merges only on pairs whose i is in its block,
\* on segments that have been written once per stage before this (k, j) and
\* not yet in it, it has merged all its pairs when it calls the Wait that ends
\* the (k, j), and the tasks of two workers never touch a common segment.
C31_PairsPartitionSegments ==
    /\ \A e \in 0 .. MaxLog2Pairs : \A f \in 0 .. e :
          PairsPartition(Pow2(e), Pow2(f))
    /\ [](mode = "blocking" =>
             \A t \in Workers :
                /\ \A u \in Workers \ {t} : Touched(t) \cap Touched(u) = {}
                /\ (spc[t] \in {"synced", "done"} /\ loop_kj[t] # <<0, 0>>) =>
                      \A i \in Block(t) \cap LowerOfPairs(loop_kj[t][2], num_segments) :
                         /\ task_runs[i] >= StageOf(loop_kj[t]) + 1
                         /\ task_runs[Xor(i, loop_kj[t][2])] >= StageOf(loop_kj[t]) + 1)
    /\ [][mode = "blocking" =>
             \A t \in Workers :
                (running[t].kind = "none" /\ running'[t].kind = "merge") =>
                   /\ running'[t].seg1 \in Block(t)
                   /\ running'[t].seg1 < running'[t].seg2
                   /\ running'[t].seg2 = Xor(running'[t].seg1, loop_kj[t][2])
                   /\ task_runs[running'[t].seg1] = StageOf(loop_kj[t])
                   /\ task_runs[running'[t].seg2] = StageOf(loop_kj[t])]_vars

\* In the step (4, 2) of a blocking sort of four segments worker 0 is inside
\* the merge of its segment 1 with segment 3 of worker 1's block, having
\* merged segments 0 and 2; worker 1, with no pair in this step, is in the
\* Wait that ends it.
C31_Witness ==
    /\ mode = "blocking" /\ num_threads = 2 /\ num_segments = 4
    /\ loop_kj[0] = <<4, 2>> /\ loop_kj[1] = <<4, 2>>
    /\ running[0].kind = "merge" /\ running[0].seg1 = 1
    /\ running[0].seg2 \in Block(1)
    /\ task_runs[0] = 3 /\ task_runs[2] = 3 /\ task_runs[3] = 2
    /\ spc[1] = "synced"

(* ------------------------------------------------------------------ *)
(* Properties of the segments between the steps of the network.        *)
(* ------------------------------------------------------------------ *)
\* The segment is entirely non-decreasing or entirely non-increasing.
Monotone(s) == NonDecreasing(s) \/ NonIncreasing(s)

\* C32: the merges of a (k, j) keep every segment internally monotone: called
\* on two segments that are monotone, as std::sort and the steps before leave
\* them, merge::Up and merge::Dn leave both segments monotone.
C32_SegmentsStayMonotone ==
    m_call \in {"MergeUp", "MergeDn"} =>
        Monotone(m_output[1]) /\ Monotone(m_output[2])

(* ------------------------------------------------------------------ *)
(* Properties of the stealing sort.                                    *)
(* ------------------------------------------------------------------ *)
\* The queues that `for (i = thread_index + 1; i < num_threads + thread_index;
\* ++i) execute_tasks(i % num_threads)` goes through from i on.
RECURSIVE StealVisits(_, _, _)
StealVisits(i, t, n) ==
    IF i < n + t THEN <<i % n>> \o StealVisits(i + 1, t, n) ELSE <<>>

StageOfTask(t) == task_runs[running[t].seg1]

\* C34: in a stealing sort, while a task is in progress on any thread, whether
\* popped by its owner or by a stealer inside the spin loop of a Wait, every
\* segment has been written as often as the task's stage or once more: no
\* task of the following step has started or finished, so a merge of a (k, j)
\* starts only after every local sort or merge of the step before has
\* returned.  Tasks in progress on two threads never share a segment.
C34_StealingStepsSeparated ==
    mode = "stealing" =>
        \A t \in Workers :
            /\ running[t].pc # "undefined"
            /\ InProgress(t) # {} =>
                  /\ task_runs[running[t].seg2] = StageOfTask(t)
                  /\ running[t].kind = "sort" <=> StageOfTask(t) = 0
                  /\ \A seg \in DOMAIN task_runs :
                        task_runs[seg] \in {StageOfTask(t), StageOfTask(t) + 1}
                  /\ \A u \in Workers \ {t} :
                        /\ InProgress(u) # {} => StageOfTask(u) = StageOfTask(t)
                        /\ InProgress(u) \cap InProgress(t) = {}

\* Worker 0 is still inside the local sort it stole from worker 1 in the spin
\* loop of the first Wait, which worker 1 has released; worker 1 has called
\* the Wait at the top of (2, 1) and cannot go on to its merge.
C34_Witness ==
    /\ mode = "stealing" /\ num_threads = 2
    /\ running[0].kind = "sort" /\ running[0].seg1 \in Block(1)
    /\ wpc[0] = "spin" /\ barrier.sense_ # wait_sense[0]
    /\ wait_calls[0] = 1 /\ wait_calls[1] = 2
    /\ wpc[1] = "spin" /\ loop_kj[1] = <<2, 1>>

(* ------------------------------------------------------------------ *)
(* Properties of the tasks of the stealing and wait-free sorts.        *)
(* ------------------------------------------------------------------ *)
\* Number of tasks on segment seg that are in a queue or popped and not yet
\* returned from their std::sort or merge.
Pending(seg) ==
    LET Queued == UNION {{<<t, p>> : p \in DOMAIN queue[t]} : t \in Workers}
        OnSeg == {tp \in Queued : seg \in {queue[tp[1]][tp[2]].seg1,
                                            queue[tp[1]][tp[2]].seg2}}
        Popped == {t \in Workers : seg \in InProgress(t)}
    IN Cardinality(OnSeg) + Cardinality(Popped)

\* C35: in the stealing and wait-free sorts a task leaves a queue only by the
\* Pop of one thread, its owner or a stealer, which then runs it, and a thread
\* runs nothing but the task it popped; a segment never has more tasks
\* finished, running and queued than the local sort and one merge per (k, j);
\* when all workers have returned every queue is empty, no task is running
\* and every segment has had exactly that many tasks.
C35_TasksRunExactlyOnce ==
    /\ [](mode \in {"stealing", "waitfree"} =>
             /\ \A seg \in DOMAIN task_runs :
                   task_runs[seg] + Pending(seg) <= 1 + NumSteps
             /\ SortDone =>
                   /\ \A t \in Workers : queue[t] = <<>> /\ running[t] = NoTask
                   /\ \A seg \in DOMAIN task_runs : task_runs[seg] = 1 + NumSteps)
    /\ [][(mode = "stealing" \/ mode = "waitfree") =>
             /\ \A q \in Workers :
                   (queue'[q] # queue[q] /\ Len(queue'[q]) <= Len(queue[q])) =>
                      /\ queue'[q] = Tail(queue[q])
                      /\ Cardinality({t \in Workers :
                                         /\ running[t] = NoTask
                                         /\ running'[t] = Head(queue[q])
                                         /\ queue_index[t] = q}) = 1
             /\ \A t \in Workers :
                   (running[t] = NoTask /\ running'[t] # NoTask) =>
                      /\ queue_index[t] # NoIndex
                      /\ queue[queue_index[t]] # <<>>
                      /\ running'[t] = Head(queue[queue_index[t]])
                      /\ queue'[queue_index[t]] = Tail(queue[queue_index[t]])]_vars

\* A wait-free sort of four segments by two workers has returned: the queues
\* are empty and every segment has had its local sort and three merges.
C35_Witness ==
    /\ mode = "waitfree" /\ SortDone /\ num_threads = 2 /\ num_segments = 4
    /\ \A t \in Workers : queue[t] = <<>> /\ running[t] = NoTask
    /\ \A seg \in DOMAIN task_runs : task_runs[seg] = 4

\* C36: in a stealing sort every worker calls Wait once after the local sorts
\* and twice in every (k, j): no worker is ever more than one Wait ahead of
\* another, a worker that has returned has called it 1 + 2 * (number of
\* (k, j)) times; and when every worker that can take a step eventually takes
\* one, all workers return: the tasks stolen and run inside the spin loop of
\* a Wait do not keep the barrier from releasing.
C36_StealingWaitsAndReturns ==
    /\ [](mode = "stealing" =>
             \A t \in Workers :
                /\ wait_calls[t] <= 1 + 2 * NumSteps
                /\ spc[t] = "done" => wait_calls[t] = 1 + 2 * NumSteps
                /\ \A u \in Workers : wait_calls[t] <= wait_calls[u] + 1)
    /\ (\A t \in SortThreads : WF_vars(WorkerStep(t))) =>
          (mode = "stealing" ~> SortDone)

\* Two workers have returned from a stealing sort of four segments, each
\* after seven calls of Wait.
C36_Witness ==
    /\ mode = "stealing" /\ SortDone /\ num_threads = 2 /\ num_segments = 4
    /\ \A t \in Workers : wait_calls[t] = 7 /\ wpc[t] = "out"

(* ------------------------------------------------------------------ *)
(* Properties of the wait-free sort.                                   *)
(* ------------------------------------------------------------------ *)
\* Both segments of task x have been counted `stage` times.
BothAtStage(x, stage) ==
    /\ segment_stage_count[x.seg1] = stage
    /\ segment_stage_count[x.seg2] = stage

\* C37: in a wait-free sort a worker pushes a merge task only when the
\* counters of both its segments equal the worker's thread_stage_count; while
\* the task is in the queue the counters and the owner's thread_stage_count
\* keep that value; and the thread that pops the task, owner or stealer, finds
\* both counters at that stage and they stay there while the std::sort or
\* merge is in progress.
C37_QueuedTaskSegmentsAtStage ==
    /\ [](mode = "waitfree" =>
             /\ \A t \in Workers : \A p \in DOMAIN queue[t] :
                   BothAtStage(queue[t][p], thread_stage_count[t])
             /\ \A t \in Workers :
                   InProgress(t) # {} =>
                      /\ BothAtStage(running[t], task_runs[running[t].seg1])
                      /\ task_runs[running[t].seg2] = task_runs[running[t].seg1])
    /\ [][mode = "waitfree" =>
             \A t \in Workers :
                /\ Len(queue'[t]) > Len(queue[t]) =>
                      /\ BothAtStage(queue'[t][Len(queue'[t])], thread_stage_count[t])
                      /\ segment_stage_count' = segment_stage_count
                /\ (running[t] = NoTask /\ running'[t] # NoTask) =>
                      BothAtStage(running'[t], thread_stage_count[queue_index[t]])]_vars

\* Worker 0 of a wait-free sort has pushed the merge of segments 0 and 2 of
\* its stage 2 and worker 1, a stage ahead, has stolen it and has it in
\* progress with both counters at 2.
C37_Witness ==
    /\ mode = "waitfree" /\ num_threads = 2 /\ num_segments = 4
    /\ running[1].kind = "merge" /\ running[1].pc = "end" /\ queue_index[1] = 0
    /\ running[1].seg1 = 0 /\ running[1].seg2 = 2
    /\ thread_stage_count[0] = 2 /\ thread_stage_count[1] = 3
    /\ BothAtStage(running[1], 2)

\* C38: in a wait-free sort the std::sort or merge calls that two threads have
\* in progress at the same time, each popped from the thread's own queue or
\* stolen from another's, never have a segment in common.
C38_WaitfreeTasksDisjoint ==
    mode = "waitfree" =>
        \A t \in Workers : \A u \in Workers \ {t} :
            InProgress(t) \cap InProgress(u) = {}

\* In the step (4, 2) of a wait-free sort worker 0 runs its merge of segments
\* 0 and 2 while worker 1 runs the merge of segments 1 and 3 that it stole
\* from worker 0's queue.
C38_Witness ==
    /\ mode = "waitfree" /\ num_threads = 2 /\ num_segments = 4
    /\ running[0].kind = "merge" /\ running[0].pc = "end"
    /\ running[0].seg1 = 0 /\ running[0].seg2 = 2
    /\ running[1].kind = "merge" /\ running[1].pc = "end"
    /\ running[1].seg1 = 1 /\ running[1].seg2 = 3 /\ queue_index[1] = 0

\* Preemptive OS threads: a worker that can take a step eventually takes one.
SortFairSpec == SortSpec /\ \A t \in SortThreads : WF_vars(WorkerStep(t))

SomeUndefined == \E t \in Workers : running[t].pc = "undefined"

\* Every wait-free sort that does not terminate has run into a call whose
\* behaviour is undefined.
WaitfreeTerminatesOrUndefined ==
    mode = "waitfree" ~> (SortDone \/ SomeUndefined)


\* C40: in the wait-free mode, while a thread executes a local-sort task it
\* stole, whose closure refers by reference to locals of the thread_work call
\* of the worker that pushed it, that worker has not returned from thread_work.
C40_PusherOutlivesStolenSort ==
    mode = "waitfree" =>
        \A t \in Workers :
            (running[t].kind = "sort" /\ running[t].refs \notin {NoIndex, t})
                => spc[running[t].refs] # "done"

====
